---- MODULE Spec2Model ----
(***************************************************************************)
(* Model of the AI conversation assistant: the speaker/question heuristic  *)
(* of AzureSpeechService, the service's start/stop life cycle, and the     *)
(* recording/summary orchestration of AppProvider (React context).         *)
(*                                                                         *)
(* Two specifications share the variables:                                 *)
(*   SpecSpeaker  the heuristic, driven by finalized utterances;           *)
(*   Spec         the orchestrator and the service life cycle, where a     *)
(*                transcript segment is abstracted to its id (the          *)
(*                orchestrator never reads the speaker label or the text). *)
(***************************************************************************)
EXTENDS Integers, Sequences, FiniteSets, TLC

(***************************************************************************)
(* Bounds of the model.                                                    *)
(***************************************************************************)
\* number of finalized utterances fed to the heuristic in SpecSpeaker
MaxUtt == 4
\* Date.now() when the service is constructed (any value >= 3000 behaves alike)
Epoch == 100000
\* number of audio-level samples taken in SpecSpeaker
MaxSamples == 1
\* number of toggleRecording invocations (clicks on the record control) in Spec
MaxClicks == 4
\* number of transcript segments the recognizers deliver in Spec
MaxSegments == 2
\* number of chunk intervals that elapse in Spec
MaxTicks == 2
\* number of animation frames the level monitor runs in Spec
MaxFrames == 1
\* length of the recognized texts in SpecQuestion
MaxTextLen == 5
\* number of questions handled by the orchestrator
MaxQuestions == 1
\* partial and final results delivered in SpecInterim
MaxPartials == 3
MaxFinals == 2
\* number of service operations invoked in SpecOps
MaxOps == 2

\* defaultSettings.audio.chunkIntervalMinutes
chunkIntervalMinutes == 5
\* settings.audio.chunkIntervalMinutes * 60 * 1000
chunkIntervalMs == chunkIntervalMinutes * 60 * 1000
\* lifetime of an issued token: 9 * 60 * 1000
tokenLifetimeMs == 9 * 60 * 1000

(***************************************************************************)
(* Texts.  A text is a sequence of one-character strings, so that trim,    *)
(* toLowerCase, endsWith, startsWith and split are computed, not assumed.  *)
(***************************************************************************)
UpperChars == <<"A","B","C","D","E","F","G","H","I","J","K","L","M",
                "N","O","P","Q","R","S","T","U","V","W","X","Y","Z">>
LowerChars == <<"a","b","c","d","e","f","g","h","i","j","k","l","m",
                "n","o","p","q","r","s","t","u","v","w","x","y","z">>

toLowerCaseChar(c) ==
  IF \E i \in 1..26 : UpperChars[i] = c
  THEN LowerChars[CHOOSE i \in 1..26 : UpperChars[i] = c]
  ELSE c

toLowerCase(s) == [i \in 1..Len(s) |-> toLowerCaseChar(s[i])]

RECURSIVE trimStart(_)
trimStart(s) ==
  IF s # <<>> /\ Head(s) = " " THEN trimStart(Tail(s)) ELSE s

RECURSIVE trimEnd(_)
trimEnd(s) ==
  IF s # <<>> /\ s[Len(s)] = " " THEN trimEnd(SubSeq(s, 1, Len(s) - 1)) ELSE s

trim(s) == trimEnd(trimStart(s))

endsWith(s, suffix) ==
  /\ Len(suffix) <= Len(s)
  /\ SubSeq(s, Len(s) - Len(suffix) + 1, Len(s)) = suffix

startsWith(s, prefix) ==
  /\ Len(prefix) <= Len(s)
  /\ SubSeq(s, 1, Len(prefix)) = prefix

\* text.split(' ').length: one more than the number of blanks
splitLength(s) == Cardinality({i \in 1..Len(s) : s[i] = " "}) + 1

questionStarters ==
  { <<"w","h","a","t">>, <<"w","h","e","n">>, <<"w","h","e","r","e">>,
    <<"w","h","y">>, <<"w","h","o">>, <<"w","h","o","m">>,
    <<"w","h","o","s","e">>, <<"w","h","i","c","h">>, <<"h","o","w">>,
    <<"c","a","n">>, <<"c","o","u","l","d">>, <<"w","o","u","l","d">>,
    <<"s","h","o","u","l","d">>, <<"w","i","l","l">>, <<"s","h","a","l","l">>,
    <<"m","a","y">>, <<"m","i","g","h","t">>,
    <<"d","o">>, <<"d","o","e","s">>, <<"d","i","d">>, <<"a","r","e">>,
    <<"i","s">>, <<"w","a","s">>, <<"w","e","r","e">>, <<"h","a","v","e">>,
    <<"h","a","s">>, <<"h","a","d">> }

\* (mutant) only the starters are looked at
isQuestionStartersOnly(text) ==
  LET trimmed == toLowerCase(trim(text)) IN
    \E starter \in questionStarters : startsWith(trimmed, starter \o <<" ">>)

isQuestion(text) ==
  LET trimmed == toLowerCase(trim(text)) IN
    \/ endsWith(trimmed, <<"?">>)
    \/ \E starter \in questionStarters : startsWith(trimmed, starter \o <<" ">>)

(***************************************************************************)
(* The utterances fed to the heuristic.  The recognizer's result text is   *)
(* named by an id; TextOf gives its characters.                            *)
(***************************************************************************)
TextIds == {"plan", "ship", "good"}

TextOf(id) ==
  CASE id = "plan" -> <<"W","h","a","t"," ","i","s"," ","t","h","e"," ",
                        "p","l","a","n","?">>
    [] id = "ship" -> <<"W","e"," ","s","h","o","u","l","d"," ","s","h","i","p",
                        " ","F","r","i","d","a","y",".">>
    [] id = "good" -> <<"S","o","u","n","d","s"," ","g","o","o","d"," ","t","o",
                        " ","m","e",".">>

\* per-text facts the heuristic derives from the characters
QuestionFlag == [id \in TextIds |-> isQuestion(TextOf(id))]
TextLength   == [id \in TextIds |-> Len(TextOf(id))]
WordCount    == [id \in TextIds |-> splitLength(TextOf(id))]

\* pauses (ms) between an utterance and the previous one
Pauses == {800, 900, 2600, 3000, 3100}

\* audio levels (0..100) the monitor reports
Levels == {40}

VARIABLES
  \* ---- AzureSpeechService, heuristic fields
  lastSpeakerId,              \* "Speaker 1" | "Speaker 2"
  speechHistory,              \* Seq of [text, timestamp, speakerId, audioLevel]
  audioLevelHistory,          \* Seq of levels, newest last
  voicePatterns,              \* speakers that have a profile (keys of the Map)
  speakerConsistencyCounter,
  lastSpeechTime,
  \* ---- AzureSpeechService, life-cycle fields (one record):
  \*      isListening, recognizer (0 = null, else the recognizer's id),
  \*      microphoneStream (held or not), audioContext ("none" | "open" |
  \*      "closing": close() was called and has not settled),
  \*      animationFrameId (a frame callback is pending),
  \*      tokenExpiry (0 = no token)
  svc,
  \* ---- speech SDK: state of every recognizer object created, by id
  recognizers,                \* Seq of "starting" | "running" | "failed" |
                              \*   "canceled" | "closed"
  \* ---- AppProvider: React state
  isRecording,                \* recordingState.isRecording
  transcript,                 \* Seq of segment ids
  summaries,                  \* Seq of [relatedTranscriptIds, session]
  audioLevel,
  \* ---- AppProvider: refs and timers
  lastSummaryTimeRef,         \* -1 = null
  chunkTimerRef,              \* 0 = null, else a timer id
  timers,                     \* active interval timers [id, transcript, due]
  timerCount,                 \* timers created so far (ids)
  \* ---- asynchronous calls in flight
  calls,                      \* suspended calls [id, kind, pc, transcript, cancelled]
  requests,                   \* generateSummary calls [segs, by, call, session, state]
  toasts,                     \* messages shown to the user: set of [msg, ref]
  \* ---- history of the run, for the properties
  callLog,                    \* toggleRecording invocations [kind, transcript, session, done]
  session,                    \* recordings started so far
  delivered,                  \* delivered[id] = [session, recording, isQuestion] of segment id
  fires,                      \* chunk timer callbacks run so far
  frames,                     \* frame callbacks run so far
  \* ---- the recognizer's final result and what the handler emitted for it
  resultText,                 \* e.result.text, a sequence of characters
  emitted,                    \* Seq of [text, isQuestion], at most one
  \* ---- questions and answers
  asks,                       \* Seq of [question, isManual, state]: answerQuestion calls
  qaList,                     \* Seq of QAPair [question, answer, isManual]
  \* ---- credentials held by the two services, each field present or empty
  sttConfig,                  \* [endpoint, subscriptionKey, region]
  llmConfig,                  \* [endpoint, subscriptionKey, deploymentName]
  \* ---- service operations invoked directly (SpecOps)
  fetches,                    \* network requests issued so far
  ops,                        \* Seq of [op, result]
  \* ---- interim segments (recognizer.recognizing)
  onInterimTextReceived,      \* the service was constructed with an interim callback
  currentInterimId,           \* 0 = null, else the id of the current interim segment
  interimIds,                 \* interim ids created so far
  interims,                   \* Seq of [id, text, utterance]: interim segments emitted
  utterance,                  \* the utterance the recognizer is in (final results + 1)
  partials,                   \* partial results delivered so far
  \* ---- useTranscriptChunking: props, state and the deps of the last commit
  hookIsRecording,            \* prop isRecording
  hookTranscript,             \* prop transcript: Seq of segment ids
  lastChunkTime,              \* state, -1 = null
  processedIds,               \* state: set of segment ids
  hookDeps,                   \* [mounted, transcript, lastChunkTime, isRecording] of the last commit
  hookChunks,                 \* chunks handed to onChunkComplete: Seq of [segments, startTime, endTime]
  hookToggles,                \* changes of the isRecording prop so far
  \* ---- Web Speech API variant of the speech service (part_001)
  wsIsListening,     \* this.isListening
  wsRecognition,     \* this.recognition: index into wsRecognitions, 0 for null
  wsRecognitions,    \* the SpeechRecognition objects created so far
  wsPendingStarts,   \* startRecognition calls waiting for getUserMedia
  wsRestartTimers,   \* pending 100 ms timers set by onend
  wsFallbackTimers,  \* pending 100 ms timers set by onerror (language-not-supported)
  wsStopped,         \* stopRecognition was called and startRecognition not since
  wsFires,           \* timer callbacks run so far
  \* ---- connection statuses (AppProvider, SettingsDialog, useKV)
  sttStatus,         \* "disconnected" | "connecting" | "connected" | "error"
  openaiStatus,
  kvStatus,          \* localStorage: [stt, openai], "none" for a missing item
  settingsOk,        \* [stt, openai]: the persisted settings hold the credentials
  startupCheck,      \* checkInitialConnections of this page: [pc, openaiAtMount]
  statusTests,       \* connection tests of the settings dialog in flight
  pageMounted,       \* the mount effects of this page have run
  pageLoads,         \* pages loaded so far
  testCount,         \* connection tests started so far
  \* ---- environment
  now                         \* Date.now()

heurVars == <<lastSpeakerId, speechHistory, audioLevelHistory, voicePatterns,
              speakerConsistencyCounter, lastSpeechTime>>

appVars == <<svc, recognizers, isRecording, transcript, summaries, audioLevel,
             lastSummaryTimeRef, chunkTimerRef, timers, timerCount, calls,
             requests, toasts, callLog, session, delivered, fires, frames>>

textVars == <<resultText, emitted>>

opsVars == <<sttConfig, llmConfig, fetches, ops>>

qaVars == <<asks, qaList>>

interimVars == <<onInterimTextReceived, currentInterimId, interimIds, interims, utterance, partials>>

chunkerVars == <<hookIsRecording, hookTranscript, lastChunkTime, processedIds, hookDeps, hookChunks, hookToggles>>

wsVars == <<wsIsListening, wsRecognition, wsRecognitions, wsPendingStarts, wsRestartTimers, wsFallbackTimers, wsStopped, wsFires>>

statusVars == <<sttStatus, openaiStatus, kvStatus, settingsOk, startupCheck, statusTests, pageMounted, pageLoads, testCount>>

vars == <<heurVars, appVars, textVars, opsVars, qaVars, interimVars, chunkerVars, wsVars, statusVars, now>>

(***************************************************************************)
(* AzureSpeechService.determineSpeakerFromContext                          *)
(***************************************************************************)
Abs(x) == IF x < 0 THEN -x ELSE x

RECURSIVE SumSeq(_)
SumSeq(s) == IF s = <<>> THEN 0 ELSE Head(s) + SumSeq(Tail(s))

RECURSIVE ProdSeq(_)
ProdSeq(s) == IF s = <<>> THEN 1 ELSE Head(s) * ProdSeq(Tail(s))

\* Array.prototype.slice(-n)
sliceLast(s, n) == IF Len(s) <= n THEN s ELSE SubSeq(s, Len(s) - n + 1, Len(s))

\* (mutant) a third identity appears after "Speaker 2"
otherSpeakerThird(id) == IF id = "Speaker 1" THEN "Speaker 2" ELSE "Speaker 3"

\* this.lastSpeakerId === 'Speaker 1' ? 'Speaker 2' : 'Speaker 1'
otherSpeaker(id) == IF id = "Speaker 1" THEN "Speaker 2" ELSE "Speaker 1"

pushHistoryDropNewest(history, entry) ==
  LET pushed == Append(history, entry) IN
    IF Len(pushed) > 15 THEN SubSeq(pushed, 1, 15) ELSE pushed

\* history after the push and the 15-entry cap
pushHistory(history, entry) ==
  LET pushed == Append(history, entry) IN
    IF Len(pushed) > 15 THEN Tail(pushed) ELSE pushed

\* audioLevelHistory after a sample and the 20-entry cap
pushAudioLevel(levels, level) ==
  LET pushed == Append(levels, level) IN
    IF Len(pushed) > 20 THEN Tail(pushed) ELSE pushed

\* (mutant) any pause above half a second counts as long
longPauseShort(timeSinceLastSpeech) == timeSinceLastSpeech > 500

\* (mutant) only a pause above five seconds counts as long
longPauseFiveSeconds(timeSinceLastSpeech) == timeSinceLastSpeech > 5000

\* Factor 1: long pause
longPause(timeSinceLastSpeech) == timeSinceLastSpeech > 2500

\* Factor 2: |current - mean of the last 3 history levels| > 15, pause > 1500.
\* The history already holds the current utterance.
audioLevelChange(history, currentAudioLevel, timeSinceLastSpeech) ==
  /\ Len(history) >= 3
  /\ LET recent == [i \in 1..3 |-> sliceLast(history, 3)[i].audioLevel] IN
       Abs(3 * currentAudioLevel - SumSeq(recent)) > 3 * 15
  /\ timeSinceLastSpeech > 1500

\* Factor 3: conversation turn patterns against the previous utterance
questionAnswerPattern(history, textId, timeSinceLastSpeech) ==
  /\ Len(history) >= 2
  /\ QuestionFlag[history[Len(history) - 1].text]
  /\ ~QuestionFlag[textId]
  /\ timeSinceLastSpeech > 800

newQuestionPattern(history, textId, timeSinceLastSpeech) ==
  /\ Len(history) >= 2
  /\ ~QuestionFlag[history[Len(history) - 1].text]
  /\ QuestionFlag[textId]
  /\ timeSinceLastSpeech > 1200

\* Factor 4: |rate - mean rate of the last 4 history texts| > 1.5, pause > 1800,
\* with rate = words / (length / 100).  Compared over the common denominator
\* (the product of the four lengths) to stay in the integers.
speechRateChange(history, textId, timeSinceLastSpeech) ==
  /\ Len(history) >= 4
  /\ LET recent == sliceLast(history, 4)
         lens   == [i \in 1..4 |-> TextLength[recent[i].text]]
         den    == ProdSeq(lens)
         rates  == [i \in 1..4 |-> 100 * WordCount[recent[i].text] * (den \div lens[i])]
         rate   == 100 * WordCount[textId] * (den \div TextLength[textId])
     IN  2 * Abs(4 * rate - SumSeq(rates)) > 3 * 4 * den
  /\ timeSinceLastSpeech > 1800

\* shouldSwitchSpeaker after factors 1-4
anyFactor(history, textId, currentAudioLevel, timeSinceLastSpeech) ==
  \/ longPause(timeSinceLastSpeech)
  \/ audioLevelChange(history, currentAudioLevel, timeSinceLastSpeech)
  \/ questionAnswerPattern(history, textId, timeSinceLastSpeech)
  \/ newQuestionPattern(history, textId, timeSinceLastSpeech)
  \/ speechRateChange(history, textId, timeSinceLastSpeech)

\* (mutant) the guard never vetoes
preventRapidSwitchNever(shouldSwitch, counter, timeSinceLastSpeech) == FALSE

\* (mutant) the guard only protects the utterance right after a switch
preventRapidSwitchOnce(shouldSwitch, counter, timeSinceLastSpeech) ==
  shouldSwitch /\ counter < 1 /\ timeSinceLastSpeech < 3000

\* (mutant) the guard vetoes after any pause
preventRapidSwitchAnyPause(shouldSwitch, counter, timeSinceLastSpeech) ==
  shouldSwitch /\ counter < 2

\* Factor 5: prevent too frequent switching
preventRapidSwitch(shouldSwitch, counter, timeSinceLastSpeech) ==
  shouldSwitch /\ counter < 2 /\ timeSinceLastSpeech < 3000

\* the decision: TRUE when the speaker is switched
shouldSwitchSpeaker(history, textId, currentAudioLevel, counter, timeSinceLastSpeech) ==
  LET fired == anyFactor(history, textId, currentAudioLevel, timeSinceLastSpeech) IN
    fired /\ ~preventRapidSwitch(fired, counter, timeSinceLastSpeech)

\* (mutant) the counter restarts at 1 after a switch
nextCounterFromOne(switch, counter) == IF switch THEN 1 ELSE counter + 1

\* counter after the decision
nextCounter(switch, counter) == IF switch THEN 0 ELSE counter + 1

determineSpeakerFromContext(textId, currentTime) ==
  LET timeSinceLastSpeech == currentTime - lastSpeechTime
      currentAudioLevel ==
        IF Len(audioLevelHistory) > 0
        THEN audioLevelHistory[Len(audioLevelHistory)] ELSE 0
      history == pushHistory(speechHistory,
                   [text |-> textId, timestamp |-> currentTime,
                    speakerId |-> lastSpeakerId, audioLevel |-> currentAudioLevel])
      switch == shouldSwitchSpeaker(history, textId, currentAudioLevel,
                                    speakerConsistencyCounter, timeSinceLastSpeech)
  IN
    /\ speechHistory' = history
    /\ lastSpeakerId' = IF switch THEN otherSpeaker(lastSpeakerId) ELSE lastSpeakerId
    /\ speakerConsistencyCounter' = nextCounter(switch, speakerConsistencyCounter)
    /\ voicePatterns' = voicePatterns \cup {lastSpeakerId'}
    /\ lastSpeechTime' = currentTime
    /\ UNCHANGED audioLevelHistory

(***************************************************************************)
(* Initial state: the fields of a newly constructed AzureSpeechService.    *)
(***************************************************************************)
InitSpeaker ==
  /\ lastSpeakerId = "Speaker 1"
  /\ speechHistory = <<>>
  /\ audioLevelHistory = <<>>
  /\ voicePatterns = {}
  /\ speakerConsistencyCounter = 0
  /\ lastSpeechTime = 0

\* AppProvider after mount with both services connected: the record control
\* is enabled only then, and the service refs are set by the effect of
\* that render (the speech service is constructed with the callbacks of a
\* render whose transcript is empty)
InitApp ==
  /\ svc = [isListening |-> FALSE, recognizer |-> 0, microphoneStream |-> FALSE,
            audioContext |-> "none", animationFrameId |-> FALSE, tokenExpiry |-> 0]
  /\ recognizers = <<>>
  /\ isRecording = FALSE
  /\ transcript = <<>>
  /\ summaries = <<>>
  /\ audioLevel = 0
  /\ lastSummaryTimeRef = -1
  /\ chunkTimerRef = 0
  /\ timers = {}
  /\ timerCount = 0
  /\ calls = {}
  /\ requests = <<>>
  /\ toasts = {}
  /\ callLog = <<>>
  /\ session = 0
  /\ delivered = <<>>
  /\ fires = 0
  /\ frames = 0

\* useTranscriptChunking before its first commit: useState(null),
\* useState(new Set()), used by a parent that is not recording
InitChunker ==
  /\ hookIsRecording = FALSE
  /\ hookTranscript = <<>>
  /\ lastChunkTime = -1
  /\ processedIds = {}
  /\ hookDeps = [mounted |-> FALSE, transcript |-> <<>>, lastChunkTime |-> -1,
                 isRecording |-> FALSE]
  /\ hookChunks = <<>>
  /\ hookToggles = 0

\* no check of a connection is in flight
IdleStartupCheck == [pc |-> "idle", openaiAtMount |-> "disconnected"]

\* a page on which both services have been found connected (the state in
\* which the record control is enabled and the services exist)
InitStatusConnected ==
  /\ sttStatus = "connected"
  /\ openaiStatus = "connected"
  /\ kvStatus = [stt |-> "connected", openai |-> "connected"]
  /\ settingsOk = [stt |-> TRUE, openai |-> TRUE]
  /\ startupCheck = IdleStartupCheck
  /\ statusTests = {}
  /\ pageMounted = TRUE
  /\ pageLoads = 1
  /\ testCount = 0

\* the Web Speech variant after construction
InitWebSpeech ==
  /\ wsIsListening = FALSE
  /\ wsRecognition = 0
  /\ wsRecognitions = <<>>
  /\ wsPendingStarts = 0
  /\ wsRestartTimers = 0
  /\ wsFallbackTimers = 0
  /\ wsStopped = FALSE
  /\ wsFires = 0

\* private currentInterimId: string | null = null
NoInterim ==
  /\ currentInterimId = 0
  /\ interimIds = 0
  /\ interims = <<>>
  /\ utterance = 1
  /\ partials = 0

\* both services hold complete credentials; no operation was invoked
InitOps ==
  /\ sttConfig = [endpoint |-> TRUE, subscriptionKey |-> TRUE, region |-> TRUE]
  /\ llmConfig = [endpoint |-> TRUE, subscriptionKey |-> TRUE, deploymentName |-> TRUE]
  /\ fetches = 0
  /\ ops = <<>>

Init ==
  /\ InitSpeaker
  /\ InitApp
  /\ InitOps
  /\ asks = <<>>
  /\ qaList = <<>>
  /\ onInterimTextReceived = FALSE
  /\ NoInterim
  /\ InitStatusConnected
  /\ InitWebSpeech
  /\ InitChunker
  /\ resultText = <<>>
  /\ emitted = <<>>
  /\ now = Epoch

(***************************************************************************)
(* SpecSpeaker: the recognizer delivers finalized utterances.              *)
(***************************************************************************)
\* recognizer.recognized: a final result `textId` arrives `pause` ms after the
\* previous event (the first one at the construction time base)
Recognized(textId, pause) ==
  /\ Len(speechHistory) < MaxUtt
  /\ now' = now + pause
  /\ determineSpeakerFromContext(textId, now')
  /\ UNCHANGED appVars
  /\ UNCHANGED textVars
  /\ UNCHANGED opsVars
  /\ UNCHANGED qaVars
  /\ UNCHANGED statusVars
  /\ UNCHANGED wsVars
  /\ UNCHANGED chunkerVars
  /\ UNCHANGED interimVars

\* updateLevel (the monitor's frame callback), as far as the heuristic sees it
LevelSampled(level) ==
  /\ Len(audioLevelHistory) < MaxSamples
  /\ audioLevelHistory' = pushAudioLevel(audioLevelHistory, level)
  /\ UNCHANGED <<lastSpeakerId, speechHistory, voicePatterns,
                 speakerConsistencyCounter, lastSpeechTime, now>>
  /\ UNCHANGED appVars
  /\ UNCHANGED textVars
  /\ UNCHANGED opsVars
  /\ UNCHANGED qaVars
  /\ UNCHANGED statusVars
  /\ UNCHANGED wsVars
  /\ UNCHANGED chunkerVars
  /\ UNCHANGED interimVars

NextSpeaker ==
  \/ \E textId \in TextIds :
       \E pause \in (IF speechHistory = <<>> THEN {0} ELSE Pauses) :
         Recognized(textId, pause)
  \/ \E level \in Levels : LevelSampled(level)

SpecSpeaker == Init /\ [][NextSpeaker]_vars

(***************************************************************************)
(* SpecHistory: a long conversation. The recognizer delivers more final    *)
(* results than the utterance history holds, one every HistoryPause, and   *)
(* the monitor delivers more samples than the level history holds.         *)
(***************************************************************************)
MaxHistoryUtt == 17

HistoryTextIds == {"ship"}

HistoryPauses == {1000}

\* recognizer.recognized for the next utterance of the long conversation
RecognizedNext(textId, pause) ==
  /\ now < Epoch + MaxHistoryUtt * pause
  /\ now' = now + pause
  /\ determineSpeakerFromContext(textId, now')
  /\ UNCHANGED appVars
  /\ UNCHANGED textVars
  /\ UNCHANGED opsVars
  /\ UNCHANGED qaVars
  /\ UNCHANGED statusVars
  /\ UNCHANGED wsVars
  /\ UNCHANGED chunkerVars
  /\ UNCHANGED interimVars

\* updateLevel for the next sample; the level history is bounded by its cap
LevelSampledNext(level) ==
  /\ audioLevelHistory' = pushAudioLevel(audioLevelHistory, level)
  /\ UNCHANGED <<lastSpeakerId, speechHistory, voicePatterns,
                 speakerConsistencyCounter, lastSpeechTime, now>>
  /\ UNCHANGED appVars
  /\ UNCHANGED textVars
  /\ UNCHANGED opsVars
  /\ UNCHANGED qaVars
  /\ UNCHANGED statusVars
  /\ UNCHANGED wsVars
  /\ UNCHANGED chunkerVars
  /\ UNCHANGED interimVars

NextHistory ==
  \/ \E textId \in HistoryTextIds : \E pause \in HistoryPauses :
       RecognizedNext(textId, pause)
  \/ \E level \in Levels : LevelSampledNext(level)

SpecHistory == Init /\ [][NextHistory]_vars

(***************************************************************************)
(* SpecQuestion: the recognizer delivers one final result, any text over   *)
(* TextAlphabet of at most MaxTextLen characters, and the handler builds   *)
(* the segment for it.                                                     *)
(***************************************************************************)
TextAlphabet == {"w", "h", "o", "d", "W", " ", "?"}

Texts == UNION {[1..n -> TextAlphabet] : n \in 0..MaxTextLen}

InitQuestion ==
  /\ InitSpeaker
  /\ InitApp
  /\ InitOps
  /\ asks = <<>>
  /\ qaList = <<>>
  /\ onInterimTextReceived = FALSE
  /\ NoInterim
  /\ InitStatusConnected
  /\ InitWebSpeech
  /\ InitChunker
  /\ resultText \in Texts
  /\ emitted = <<>>
  /\ now = Epoch

\* recognizer.recognized, as far as the segment's text and question flag go:
\* a result whose trimmed text is empty is dropped
SegmentBuilt ==
  /\ emitted = <<>>
  /\ trim(resultText) # <<>>
  /\ emitted' = <<[text |-> resultText, isQuestion |-> isQuestion(trim(resultText))]>>
  /\ UNCHANGED <<resultText, now>>
  /\ UNCHANGED heurVars
  /\ UNCHANGED appVars
  /\ UNCHANGED opsVars
  /\ UNCHANGED qaVars
  /\ UNCHANGED statusVars
  /\ UNCHANGED wsVars
  /\ UNCHANGED chunkerVars
  /\ UNCHANGED interimVars

NextQuestion == SegmentBuilt

SpecQuestion == InitQuestion /\ [][NextQuestion]_vars

(***************************************************************************)
(* AzureSpeechService: start/stop life cycle                               *)
(***************************************************************************)
\* getAuthToken: the cached token is used unless it expires within a minute
tokenValid(s, time) == s.tokenExpiry # 0 /\ ~((time + 60000) > s.tokenExpiry)

\* stopRecognition from "Stop microphone stream" on: the tracks are stopped,
\* the recognizer is stopped, closed and forgotten
stopTail(s) == [s EXCEPT !.microphoneStream = FALSE, !.recognizer = 0]

closeRecognizer(s, recs) ==
  IF s.recognizer # 0 THEN [recs EXCEPT ![s.recognizer] = "closed"] ELSE recs

\* stopRecognition up to its first suspension.  With an open audio context
\* the call suspends in `await audioContext.close()`.  close() on a context
\* that is already closing rejects at once: the catch logs it and the call
\* runs on to the end.
stopSuspends(s) == s.audioContext = "open"

stopRecognition(s) ==
  LET flagged == [s EXCEPT !.isListening = FALSE, !.animationFrameId = FALSE] IN
    IF stopSuspends(s)
    THEN [flagged EXCEPT !.audioContext = "closing"]
    ELSE stopTail(flagged)

stopRecognitionSdk(s, recs) ==
  IF stopSuspends(s) THEN recs ELSE closeRecognizer(s, recs)

\* stopRecognition resumed after `await audioContext.close()`
stopResumed(s) == stopTail([s EXCEPT !.audioContext = "none"])

\* startRecognition from setupAudioLevelMonitoring's stream on, to its return:
\* with a stream, the audio context is created and updateLevel runs once (it
\* asks for another frame only if isListening); then the recognizer is
\* created, replacing the field, and asked to start
startCompleted(s, recs, hasStream) ==
  [s EXCEPT !.microphoneStream = hasStream,
            !.audioContext = IF hasStream THEN "open" ELSE s.audioContext,
            !.animationFrameId = IF hasStream /\ s.isListening THEN TRUE
                                 ELSE s.animationFrameId,
            !.recognizer = Len(recs) + 1]

(***************************************************************************)
(* SpecInterim: the recognizer delivers partial and final results, with or *)
(* without text, to a service constructed with or without an interim       *)
(* callback; stopRecognition may be called at any point.  An interim id    *)
(* ('interim-' + Date.now() + a random suffix) is modelled as a fresh      *)
(* number.                                                                 *)
(***************************************************************************)
InitInterim ==
  /\ InitSpeaker
  /\ InitApp
  /\ InitOps
  /\ asks = <<>>
  /\ qaList = <<>>
  /\ onInterimTextReceived \in BOOLEAN
  /\ NoInterim
  /\ InitChunker
  /\ InitWebSpeech
  /\ InitStatusConnected
  /\ resultText = <<>>
  /\ emitted = <<>>
  /\ now = Epoch

InterimUnchangedRest ==
  /\ UNCHANGED heurVars
  /\ UNCHANGED appVars
  /\ UNCHANGED textVars
  /\ UNCHANGED opsVars
  /\ UNCHANGED qaVars
  /\ UNCHANGED statusVars
  /\ UNCHANGED wsVars
  /\ UNCHANGED chunkerVars
  /\ UNCHANGED now

\* recognizer.recognizing: a partial result, hasText = e.result.text.trim() # ''
Recognizing(hasText) ==
  /\ partials < MaxPartials
  /\ partials' = partials + 1
  /\ IF hasText /\ onInterimTextReceived
     THEN LET id == IF currentInterimId = 0 THEN interimIds + 1 ELSE currentInterimId IN
            /\ currentInterimId' = id
            /\ interimIds' = IF currentInterimId = 0 THEN interimIds + 1 ELSE interimIds
            /\ interims' = Append(interims, [id |-> id, text |-> partials + 1,
                                             utterance |-> utterance])
     ELSE UNCHANGED <<currentInterimId, interimIds, interims>>
  /\ UNCHANGED <<onInterimTextReceived, utterance>>
  /\ InterimUnchangedRest

\* recognizer.recognized, as far as the interim segment sees it: the final
\* result of the utterance, hasText = RecognizedSpeech /\ e.result.text.trim() # ''
RecognizedFinal(hasText) ==
  /\ utterance <= MaxFinals
  /\ utterance' = utterance + 1
  /\ currentInterimId' = IF hasText THEN 0 ELSE currentInterimId
  /\ UNCHANGED <<onInterimTextReceived, interimIds, interims, partials>>
  /\ InterimUnchangedRest

\* stopRecognition, as far as the interim segment sees it: the recognizer is
\* closed within its current utterance
StopClearsInterim ==
  /\ utterance <= MaxFinals
  /\ utterance' = utterance + 1
  /\ currentInterimId' = 0
  /\ UNCHANGED <<onInterimTextReceived, interimIds, interims, partials>>
  /\ InterimUnchangedRest

NextInterim ==
  \/ \E hasText \in BOOLEAN : Recognizing(hasText)
  \/ \E hasText \in BOOLEAN : RecognizedFinal(hasText)
  \/ StopClearsInterim

SpecInterim == InitInterim /\ [][NextInterim]_vars

(***************************************************************************)
(* SpecChunker: the hook useTranscriptChunking under a parent that toggles *)
(* isRecording, appends segments to the transcript and clears it.  A       *)
(* commit is one render of the hook with the effects it triggers; the      *)
(* state updates the effects make are applied after both have run, and     *)
(* lead to a further commit.  A toggle is seen by a commit before the next *)
(* toggle is made (the parent's handler reads the committed value).        *)
(***************************************************************************)
ChunkerUnchangedRest ==
  /\ UNCHANGED heurVars
  /\ UNCHANGED appVars
  /\ UNCHANGED textVars
  /\ UNCHANGED opsVars
  /\ UNCHANGED <<asks, qaList>>
  /\ UNCHANGED interimVars
  /\ UNCHANGED wsVars
  /\ UNCHANGED statusVars

SeqRange(seq) == {seq[i] : i \in 1..Len(seq)}

\* transcript.filter(segment => !processedIds.has(segment.id))
unprocessedSegments(tr, ids) == SelectSeq(tr, LAMBDA id : id \notin ids)

\* the first effect, run in a render that holds isRec, tr, last, ids:
\* the state it sets and the chunk it hands over (<<>> = none)
chunkEffect(isRec, tr, last, ids, time) ==
  IF ~isRec \/ Len(tr) = 0
  THEN [lastChunkTime |-> last, processedIds |-> ids, chunk |-> <<>>]
  ELSE IF last = -1
  THEN [lastChunkTime |-> time, processedIds |-> ids, chunk |-> <<>>]
  ELSE IF time - last >= chunkIntervalMs /\ Len(unprocessedSegments(tr, ids)) > 0
  THEN [lastChunkTime |-> time,
        processedIds |-> ids \cup SeqRange(unprocessedSegments(tr, ids)),
        chunk |-> <<[segments |-> unprocessedSegments(tr, ids),
                     startTime |-> last, endTime |-> time]>>]
  ELSE [lastChunkTime |-> last, processedIds |-> ids, chunk |-> <<>>]

resetEffectKeepsIds(isRec, st, time) ==
  IF isRec THEN [st EXCEPT !.lastChunkTime = time]
  ELSE [st EXCEPT !.lastChunkTime = -1]

\* the second effect, applied to the state st the first one left
resetEffect(isRec, st, time) ==
  IF isRec THEN [st EXCEPT !.lastChunkTime = time]
  ELSE [st EXCEPT !.lastChunkTime = -1, !.processedIds = {}]

chunkEffectRuns ==
  \/ ~hookDeps.mounted
  \/ hookDeps.transcript # hookTranscript
  \/ hookDeps.lastChunkTime # lastChunkTime
  \/ hookDeps.isRecording # hookIsRecording

resetEffectRuns == ~hookDeps.mounted \/ hookDeps.isRecording # hookIsRecording

\* a render of the hook and the effects whose dependencies changed
HookCommit ==
  /\ chunkEffectRuns
  /\ LET st1 == chunkEffect(hookIsRecording, hookTranscript, lastChunkTime,
                            processedIds, now)
         st2 == IF resetEffectRuns THEN resetEffect(hookIsRecording, st1, now) ELSE st1
     IN
       /\ lastChunkTime' = st2.lastChunkTime
       /\ processedIds' = st2.processedIds
       /\ hookChunks' = hookChunks \o st1.chunk
  /\ hookDeps' = [mounted |-> TRUE, transcript |-> hookTranscript,
                  lastChunkTime |-> lastChunkTime, isRecording |-> hookIsRecording]
  /\ UNCHANGED <<hookIsRecording, hookTranscript, hookToggles, now>>
  /\ ChunkerUnchangedRest

\* the parent starts or stops recording
HookToggle ==
  /\ hookDeps.mounted
  /\ hookDeps.isRecording = hookIsRecording
  /\ hookToggles < MaxClicks
  /\ hookToggles' = hookToggles + 1
  /\ hookIsRecording' = ~hookIsRecording
  /\ UNCHANGED <<hookTranscript, lastChunkTime, processedIds, hookDeps, hookChunks, now>>
  /\ ChunkerUnchangedRest

HookSegmentIds == 1..MaxSegments

\* the parent appends a segment to the transcript
HookSegment(id) ==
  /\ \A k \in SeqRange(hookTranscript) \cup processedIds : k < id
  /\ \A i \in 1..Len(hookChunks) : \A k \in SeqRange(hookChunks[i].segments) : k < id
  /\ hookTranscript' = Append(hookTranscript, id)
  /\ UNCHANGED <<hookIsRecording, lastChunkTime, processedIds, hookDeps, hookChunks,
                 hookToggles, now>>
  /\ ChunkerUnchangedRest

\* the parent clears the transcript
HookClear ==
  /\ hookTranscript # <<>>
  /\ hookTranscript' = <<>>
  /\ UNCHANGED <<hookIsRecording, lastChunkTime, processedIds, hookDeps, hookChunks,
                 hookToggles, now>>
  /\ ChunkerUnchangedRest

\* a chunk interval passes
HookIntervalElapsed ==
  /\ now < Epoch + MaxTicks * chunkIntervalMs
  /\ now' = now + chunkIntervalMs
  /\ UNCHANGED chunkerVars
  /\ ChunkerUnchangedRest

NextChunker ==
  \/ HookCommit
  \/ HookToggle
  \/ \E id \in HookSegmentIds : HookSegment(id)
  \/ HookClear
  \/ HookIntervalElapsed

SpecChunker == Init /\ [][NextChunker]_vars

(***************************************************************************)
(* SpecOps: the operations of the two services, invoked one at a time      *)
(* under any credentials.  An operation runs to its end within one step:   *)
(* the response of a network request it issues is chosen in the step.      *)
(***************************************************************************)
sttConfiguredNoRegion(cfg) == cfg.endpoint /\ cfg.subscriptionKey

\* !config.endpoint || !config.subscriptionKey || !config.region
sttConfigured(cfg) == cfg.endpoint /\ cfg.subscriptionKey /\ cfg.region

\* !config.endpoint || !config.subscriptionKey || !config.deploymentName
llmConfigured(cfg) == cfg.endpoint /\ cfg.subscriptionKey /\ cfg.deploymentName

\* the questions put to answerQuestion
QuestionIds == {"whatTime", "currentTime", "todaysDate", "whatDay", "timeline", "update", "machineLearning", "onCallToday"}

QuestionText(id) ==
  CASE id = "whatTime" -> <<"W","h","a","t"," ","t","i","m","e"," ","i","s"," ",
                            "i","t","?">>
    [] id = "currentTime" -> <<"C","u","r","r","e","n","t"," ","t","i","m","e",",",
                               " ","p","l","e","a","s","e">>
    [] id = "todaysDate" -> <<"W","h","a","t"," ","i","s"," ","t","o","d","a","y",
                              "'","s"," ","d","a","t","e","?">>
    [] id = "whatDay" -> <<"W","h","a","t"," ","d","a","y"," ","i","s"," ","i",
                           "t"," ","t","o","d","a","y","?">>
    [] id = "timeline" -> <<"W","h","a","t"," ","i","s"," ","t","h","e"," ","p",
                            "r","o","j","e","c","t"," ","t","i","m","e","l","i",
                            "n","e","?">>
    [] id = "update" -> <<"W","h","a","t"," ","d","i","d"," ","w","e"," ","u",
                          "p","d","a","t","e","?">>
    [] id = "machineLearning" -> <<"W","h","a","t"," ","i","s"," ","m","a","c","h","i",
                                   "n","e"," ","l","e","a","r","n","i","n","g","?">>
    [] id = "onCallToday" -> <<"W","h","o"," ","i","s"," ","o","n"," ","c","a","l",
                               "l"," ","t","o","d","a","y","?">>

\* the questions put to answerQuestion in SpecOps
OpsQuestionIds == {"whatTime", "machineLearning"}

\* String.prototype.includes
includes(s, sub) ==
  \E i \in 1..(Len(s) - Len(sub) + 1) : SubSeq(s, i, i + Len(sub) - 1) = sub

handleRealTimeQuestionTimeOnly(question) ==
  LET lowerQuestion == trim(toLowerCase(question)) IN
    IF includes(lowerQuestion, <<"t","i","m","e">>)
       /\ (includes(lowerQuestion, <<"w","h","a","t">>)
           \/ includes(lowerQuestion, <<"c","u","r","r","e","n","t">>))
    THEN "time"
    ELSE "none"

\* handleRealTimeQuestion: "time" and "date" stand for the two local answers,
\* "none" for null
handleRealTimeQuestion(question) ==
  LET lowerQuestion == trim(toLowerCase(question)) IN
    IF includes(lowerQuestion, <<"t","i","m","e">>)
       /\ (includes(lowerQuestion, <<"w","h","a","t">>)
           \/ includes(lowerQuestion, <<"c","u","r","r","e","n","t">>))
    THEN "time"
    ELSE IF (includes(lowerQuestion, <<"d","a","t","e">>)
             \/ includes(lowerQuestion, <<"t","o","d","a","y">>))
            /\ includes(lowerQuestion, <<"w","h","a","t">>)
    THEN "date"
    ELSE "none"

logOp(op, result) == Append(ops, [op |-> op, result |-> result, arg |-> ""])

logOpArg(op, result, arg) == Append(ops, [op |-> op, result |-> result, arg |-> arg])

OpsUnchangedApp ==
  UNCHANGED <<isRecording, transcript, summaries, audioLevel, lastSummaryTimeRef,
              chunkTimerRef, timers, timerCount, calls, requests, toasts, callLog,
              session, delivered, fires, frames>>

\* AzureSpeechService.updateConfig
UpdateSttConfig(cfg) ==
  /\ cfg # sttConfig
  /\ sttConfig' = cfg
  /\ svc' = [svc EXCEPT !.tokenExpiry = 0]
  /\ UNCHANGED <<llmConfig, fetches, ops, recognizers, now>>
  /\ OpsUnchangedApp
  /\ UNCHANGED heurVars
  /\ UNCHANGED textVars
  /\ UNCHANGED qaVars
  /\ UNCHANGED statusVars
  /\ UNCHANGED wsVars
  /\ UNCHANGED chunkerVars
  /\ UNCHANGED interimVars

\* AzureOpenAIService.updateConfig
UpdateLlmConfig(cfg) ==
  /\ cfg # llmConfig
  /\ llmConfig' = cfg
  /\ UNCHANGED <<sttConfig, fetches, ops, svc, recognizers, now>>
  /\ OpsUnchangedApp
  /\ UNCHANGED heurVars
  /\ UNCHANGED textVars
  /\ UNCHANGED qaVars
  /\ UNCHANGED statusVars
  /\ UNCHANGED wsVars
  /\ UNCHANGED chunkerVars
  /\ UNCHANGED interimVars

\* AzureSpeechService.checkConnection
SttCheckConnection(status200) ==
  /\ Len(ops) < MaxOps
  /\ IF ~sttConfigured(sttConfig)
     THEN /\ ops' = logOp("stt.checkConnection", "false")
          /\ UNCHANGED <<fetches, svc>>
     ELSE /\ fetches' = fetches + 1
          /\ ops' = logOp("stt.checkConnection", IF status200 THEN "true" ELSE "false")
          /\ svc' = IF status200
                    THEN [svc EXCEPT !.tokenExpiry = now + tokenLifetimeMs]
                    ELSE svc
  /\ UNCHANGED <<sttConfig, llmConfig, recognizers, now>>
  /\ OpsUnchangedApp
  /\ UNCHANGED heurVars
  /\ UNCHANGED textVars
  /\ UNCHANGED qaVars
  /\ UNCHANGED statusVars
  /\ UNCHANGED wsVars
  /\ UNCHANGED chunkerVars
  /\ UNCHANGED interimVars

\* AzureSpeechService.startRecognition, with no other call in flight
StartRecognitionOp(status200, granted) ==
  /\ Len(ops) < MaxOps
  /\ IF svc.isListening
     THEN /\ ops' = logOp("startRecognition", "returned")
          /\ UNCHANGED <<fetches, svc, recognizers, audioLevelHistory, audioLevel>>
     ELSE IF ~sttConfigured(sttConfig)
     THEN /\ ops' = logOp("startRecognition", "rejected: not configured")
          /\ UNCHANGED <<fetches, svc, recognizers, audioLevelHistory, audioLevel>>
     ELSE IF ~tokenValid(svc, now) /\ ~status200
     THEN /\ ops' = logOp("startRecognition", "rejected: no token")
          /\ fetches' = fetches + 1
          /\ svc' = [svc EXCEPT !.isListening = FALSE]
          /\ UNCHANGED <<recognizers, audioLevelHistory, audioLevel>>
     ELSE LET withToken ==
                IF tokenValid(svc, now) THEN svc
                ELSE [svc EXCEPT !.tokenExpiry = now + tokenLifetimeMs]
              hasStream == svc.microphoneStream \/ granted
          IN
            /\ ops' = logOp("startRecognition", "started")
            /\ fetches' = IF tokenValid(svc, now) THEN fetches ELSE fetches + 1
            /\ svc' = [startCompleted(withToken, recognizers, hasStream)
                         EXCEPT !.isListening = TRUE]
            /\ recognizers' = Append(recognizers, "running")
            /\ IF hasStream
               THEN \E level \in Levels :
                      /\ audioLevelHistory' = pushAudioLevel(audioLevelHistory, level)
                      /\ audioLevel' = level
               ELSE UNCHANGED <<audioLevelHistory, audioLevel>>
  /\ UNCHANGED <<sttConfig, llmConfig, now>>
  /\ UNCHANGED <<isRecording, transcript, summaries, lastSummaryTimeRef,
                 chunkTimerRef, timers, timerCount, calls, requests, toasts, callLog,
                 session, delivered, fires, frames>>
  /\ UNCHANGED <<lastSpeakerId, speechHistory, voicePatterns,
                 speakerConsistencyCounter, lastSpeechTime>>
  /\ UNCHANGED textVars
  /\ UNCHANGED qaVars
  /\ UNCHANGED statusVars
  /\ UNCHANGED wsVars
  /\ UNCHANGED chunkerVars
  /\ UNCHANGED interimVars

\* AzureSpeechService.stopRecognition, with no other call in flight
StopRecognitionOp ==
  /\ Len(ops) < MaxOps
  /\ ops' = logOp("stopRecognition", "stopped")
  /\ svc' = stopResumed([svc EXCEPT !.isListening = FALSE, !.animationFrameId = FALSE])
  /\ recognizers' = closeRecognizer(svc, recognizers)
  /\ UNCHANGED <<sttConfig, llmConfig, fetches, now>>
  /\ OpsUnchangedApp
  /\ UNCHANGED heurVars
  /\ UNCHANGED textVars
  /\ UNCHANGED qaVars
  /\ UNCHANGED statusVars
  /\ UNCHANGED wsVars
  /\ UNCHANGED chunkerVars
  /\ UNCHANGED interimVars

\* AzureOpenAIService.checkConnection
LlmCheckConnection(responseOk) ==
  /\ Len(ops) < MaxOps
  /\ IF ~llmConfigured(llmConfig)
     THEN /\ ops' = logOp("llm.checkConnection", "false")
          /\ UNCHANGED fetches
     ELSE /\ fetches' = fetches + 1
          /\ ops' = logOp("llm.checkConnection", IF responseOk THEN "true" ELSE "false")
  /\ UNCHANGED <<sttConfig, llmConfig, svc, recognizers, now>>
  /\ OpsUnchangedApp
  /\ UNCHANGED heurVars
  /\ UNCHANGED textVars
  /\ UNCHANGED qaVars
  /\ UNCHANGED statusVars
  /\ UNCHANGED wsVars
  /\ UNCHANGED chunkerVars
  /\ UNCHANGED interimVars

\* AzureOpenAIService.generateSummary
GenerateSummaryOp(responseOk) ==
  /\ Len(ops) < MaxOps
  /\ IF ~llmConfigured(llmConfig)
     THEN /\ ops' = logOp("generateSummary", "rejected: not configured")
          /\ UNCHANGED fetches
     ELSE /\ fetches' = fetches + 1
          /\ ops' = logOp("generateSummary",
                          IF responseOk THEN "resolved" ELSE "rejected: api")
  /\ UNCHANGED <<sttConfig, llmConfig, svc, recognizers, now>>
  /\ OpsUnchangedApp
  /\ UNCHANGED heurVars
  /\ UNCHANGED textVars
  /\ UNCHANGED qaVars
  /\ UNCHANGED statusVars
  /\ UNCHANGED wsVars
  /\ UNCHANGED chunkerVars
  /\ UNCHANGED interimVars

\* AzureOpenAIService.answerQuestion
AnswerQuestionOp(question, responseOk) ==
  /\ Len(ops) < MaxOps
  /\ IF ~llmConfigured(llmConfig)
     THEN /\ ops' = logOpArg("answerQuestion", "rejected: not configured", question)
          /\ UNCHANGED fetches
     ELSE IF handleRealTimeQuestion(QuestionText(question)) # "none"
     THEN /\ ops' = logOpArg("answerQuestion",
                             IF handleRealTimeQuestion(QuestionText(question)) = "time"
                             THEN "resolved: local time" ELSE "resolved: local date",
                             question)
          /\ UNCHANGED fetches
     ELSE /\ fetches' = fetches + 1
          /\ ops' = logOpArg("answerQuestion",
                             IF responseOk THEN "resolved: llm" ELSE "rejected: api",
                             question)
  /\ UNCHANGED <<sttConfig, llmConfig, svc, recognizers, now>>
  /\ OpsUnchangedApp
  /\ UNCHANGED heurVars
  /\ UNCHANGED textVars
  /\ UNCHANGED qaVars
  /\ UNCHANGED statusVars
  /\ UNCHANGED wsVars
  /\ UNCHANGED chunkerVars
  /\ UNCHANGED interimVars

NextOps ==
  \/ \E cfg \in [endpoint : BOOLEAN, subscriptionKey : BOOLEAN, region : BOOLEAN] :
       UpdateSttConfig(cfg)
  \/ \E cfg \in [endpoint : BOOLEAN, subscriptionKey : BOOLEAN,
                 deploymentName : BOOLEAN] : UpdateLlmConfig(cfg)
  \/ \E status200 \in BOOLEAN : SttCheckConnection(status200)
  \/ \E status200, granted \in BOOLEAN : StartRecognitionOp(status200, granted)
  \/ StopRecognitionOp
  \/ \E responseOk \in BOOLEAN : LlmCheckConnection(responseOk)
  \/ \E responseOk \in BOOLEAN : GenerateSummaryOp(responseOk)
  \/ \E question \in OpsQuestionIds : \E responseOk \in BOOLEAN :
       AnswerQuestionOp(question, responseOk)

SpecOps == Init /\ [][NextOps]_vars

(***************************************************************************)
(* SpecAnswer: answerQuestion is called with any of the questions, under   *)
(* any credentials, and the LLM endpoint answers or fails.                 *)
(***************************************************************************)
NextAnswer ==
  \/ \E cfg \in [endpoint : BOOLEAN, subscriptionKey : BOOLEAN,
                 deploymentName : BOOLEAN] : UpdateLlmConfig(cfg)
  \/ \E question \in QuestionIds : \E responseOk \in BOOLEAN :
       AnswerQuestionOp(question, responseOk)

SpecAnswer == Init /\ [][NextAnswer]_vars

(***************************************************************************)
(* SpecWebSpeech: the Web Speech API variant of the speech service.        *)
(* startRecognition waits for getUserMedia, creates a SpeechRecognition    *)
(* and starts it; the browser reports start, errors and end; onend and     *)
(* onerror set 100 ms timers; stopRecognition may be called at any time.   *)
(***************************************************************************)
MaxRecognitions == 3
MaxWsTimers == 2
MaxWsFires == 3

WsErrors == {"language-not-supported", "no-speech", "audio-capture", "network"}

WsUnchangedRest ==
  /\ UNCHANGED heurVars
  /\ UNCHANGED appVars
  /\ UNCHANGED textVars
  /\ UNCHANGED opsVars
  /\ UNCHANGED qaVars
  /\ UNCHANGED statusVars
  /\ UNCHANGED interimVars
  /\ UNCHANGED chunkerVars
  /\ UNCHANGED now

\* new SpeechRecognition(), handlers assigned, recognition.start()
newRecognition(fallback) ==
  [state |-> "starting", handlers |-> TRUE, fallback |-> fallback]

\* startRecognition up to `await navigator.mediaDevices.getUserMedia`
WsStartRecognition ==
  /\ ~wsIsListening
  /\ Len(wsRecognitions) + wsPendingStarts < MaxRecognitions
  /\ wsPendingStarts' = wsPendingStarts + 1
  /\ wsStopped' = FALSE
  /\ UNCHANGED <<wsIsListening, wsRecognition, wsRecognitions, wsRestartTimers,
                 wsFallbackTimers, wsFires>>
  /\ WsUnchangedRest

\* getUserMedia resolved: startRecognition creates and starts the recognition
WsPermissionGranted ==
  /\ wsPendingStarts > 0
  /\ wsPendingStarts' = wsPendingStarts - 1
  /\ wsRecognitions' = Append(wsRecognitions, newRecognition(FALSE))
  /\ wsRecognition' = Len(wsRecognitions) + 1
  /\ UNCHANGED <<wsIsListening, wsRestartTimers, wsFallbackTimers, wsStopped, wsFires>>
  /\ WsUnchangedRest

\* getUserMedia rejected: the catch clears the flag and rethrows
WsPermissionDenied ==
  /\ wsPendingStarts > 0
  /\ wsPendingStarts' = wsPendingStarts - 1
  /\ wsIsListening' = FALSE
  /\ UNCHANGED <<wsRecognition, wsRecognitions, wsRestartTimers, wsFallbackTimers,
                 wsStopped, wsFires>>
  /\ WsUnchangedRest

\* recognition.onstart
WsOnStart(r) ==
  /\ r \in 1..Len(wsRecognitions) /\ wsRecognitions[r].state = "starting"
  /\ wsRecognitions' = [wsRecognitions EXCEPT ![r].state = "running"]
  /\ wsIsListening' = IF wsRecognitions[r].handlers /\ ~wsRecognitions[r].fallback
                      THEN TRUE ELSE wsIsListening
  /\ UNCHANGED <<wsRecognition, wsPendingStarts, wsRestartTimers, wsFallbackTimers,
                 wsStopped, wsFires>>
  /\ WsUnchangedRest

\* recognition.onerror; the browser ends the recognition afterwards
WsOnError(r, error) ==
  /\ r \in 1..Len(wsRecognitions) /\ wsRecognitions[r].state \in {"starting", "running"}
  /\ wsRecognitions[r].handlers
  /\ wsRecognitions' = [wsRecognitions EXCEPT ![r].state = "ending"]
  /\ wsIsListening' = IF error = "no-speech" THEN wsIsListening ELSE FALSE
  /\ IF error = "language-not-supported" /\ ~wsRecognitions[r].fallback
     THEN /\ wsRestartTimers + wsFallbackTimers < MaxWsTimers
          /\ wsFallbackTimers' = wsFallbackTimers + 1
     ELSE UNCHANGED wsFallbackTimers
  /\ UNCHANGED <<wsRecognition, wsPendingStarts, wsRestartTimers, wsStopped, wsFires>>
  /\ WsUnchangedRest

\* recognition.onend: after an error, after stop(), or by the browser
WsOnEnd(r) ==
  /\ r \in 1..Len(wsRecognitions)
  /\ wsRecognitions[r].state \in {"running", "ending", "stopping"}
  /\ wsRecognitions' = [wsRecognitions EXCEPT ![r].state = "ended"]
  /\ IF wsRecognitions[r].handlers /\ wsIsListening
     THEN /\ wsRestartTimers + wsFallbackTimers < MaxWsTimers
          /\ wsRestartTimers' = wsRestartTimers + 1
     ELSE UNCHANGED wsRestartTimers
  /\ UNCHANGED <<wsIsListening, wsRecognition, wsPendingStarts, wsFallbackTimers,
                 wsStopped, wsFires>>
  /\ WsUnchangedRest

\* the timer set by onend: this.recognition.start(), which throws unless the
\* recognition has ended
WsRestartTimerFired ==
  /\ wsRestartTimers > 0 /\ wsFires < MaxWsFires
  /\ wsRestartTimers' = wsRestartTimers - 1
  /\ wsFires' = wsFires + 1
  /\ IF wsIsListening /\ wsRecognition # 0
     THEN IF wsRecognitions[wsRecognition].state = "ended"
          THEN /\ wsRecognitions' =
                    [wsRecognitions EXCEPT ![wsRecognition].state = "starting"]
               /\ UNCHANGED wsIsListening
          ELSE /\ wsIsListening' = FALSE
               /\ UNCHANGED wsRecognitions
     ELSE UNCHANGED <<wsIsListening, wsRecognitions>>
  /\ UNCHANGED <<wsRecognition, wsPendingStarts, wsFallbackTimers, wsStopped>>
  /\ WsUnchangedRest

\* the timer set by onerror: startRecognitionFallback
WsFallbackTimerFired ==
  /\ wsFallbackTimers > 0 /\ wsFires < MaxWsFires
  /\ Len(wsRecognitions) + wsPendingStarts < MaxRecognitions
  /\ wsFallbackTimers' = wsFallbackTimers - 1
  /\ wsFires' = wsFires + 1
  /\ wsIsListening' = TRUE
  /\ wsRecognitions' = Append(wsRecognitions, newRecognition(TRUE))
  /\ wsRecognition' = Len(wsRecognitions) + 1
  /\ UNCHANGED <<wsPendingStarts, wsRestartTimers, wsStopped>>
  /\ WsUnchangedRest

\* stopRecognition
WsStopRecognition ==
  /\ wsIsListening' = FALSE
  /\ wsRecognitions' =
       IF wsRecognition = 0 THEN wsRecognitions
       ELSE [wsRecognitions EXCEPT
               ![wsRecognition].state =
                  IF @ \in {"starting", "running"} THEN "stopping" ELSE @,
               ![wsRecognition].handlers = FALSE]
  /\ wsRecognition' = 0
  /\ wsStopped' = TRUE
  /\ UNCHANGED <<wsPendingStarts, wsRestartTimers, wsFallbackTimers, wsFires>>
  /\ WsUnchangedRest

NextWebSpeech ==
  \/ WsStartRecognition
  \/ WsPermissionGranted
  \/ WsPermissionDenied
  \/ \E r \in 1..MaxRecognitions : WsOnStart(r)
  \/ \E r \in 1..MaxRecognitions : \E error \in WsErrors : WsOnError(r, error)
  \/ \E r \in 1..MaxRecognitions : WsOnEnd(r)
  \/ WsRestartTimerFired
  \/ WsFallbackTimerFired
  \/ WsStopRecognition

SpecWebSpeech == Init /\ [][NextWebSpeech]_vars

(***************************************************************************)
(* AppProvider                                                             *)
(*                                                                         *)
(* Both services are initialised: the record control is enabled only when  *)
(* both connection statuses are "connected".  A click runs toggleRecording *)
(* up to its first suspension; React then commits the state it set and     *)
(* runs the cleanup of the isRecording effect, all within the click's      *)
(* action.  `calls` holds the suspended calls with the transcript of the   *)
(* render they closed over; `callLog`, `session`, `delivered`, `fires` and *)
(* the by/call/session fields of a request only record what happened.      *)
(***************************************************************************)
\* the transcript seen by the callbacks handed to the speech service: they
\* are the closures of the render that constructed it
serviceClosureTranscript == <<>>

\* createSummary in the closure of a render whose transcript is `snapshot`:
\* the requests after the call (the LLM service ref is set)
createSummary(reqs, snapshot, by, call, sess) ==
  IF Len(snapshot) = 0 THEN reqs
  ELSE Append(reqs, [segs |-> snapshot, by |-> by, call |-> call,
                     session |-> sess, state |-> "pending"])

\* the question submitted through askQuestion (segment ids are positive)
ManualQuestion == 0

LlmAnswer == "answer"

\* "I'm sorry, I couldn't process that question. Please try again."
FallbackAnswer == "fallback"

handleQuestionAsManual(as, question, context) ==
  Append(as, [question |-> question, isManual |-> TRUE, state |-> "pending",
              context |-> context])

\* handleQuestion up to `await answerQuestion(question, transcript)`; context
\* is the transcript of the render that defined the function
handleQuestion(as, question, context) ==
  Append(as, [question |-> question, isManual |-> FALSE, state |-> "pending",
              context |-> context])

\* askQuestion up to `await answerQuestion(question, transcript)`
askQuestion(as, question, context) ==
  Append(as, [question |-> question, isManual |-> TRUE, state |-> "pending",
              context |-> context])

\* the QAPair built by handleQuestion / askQuestion
QAPair(ask, answer) ==
  [question |-> ask.question, answer |-> answer, isManual |-> ask.isManual]

addTranscriptSegmentFirst(prev, segment) == <<segment>> \o prev

\* setTranscript((prev) => [...prev, segment])
addTranscriptSegment(prev, segment) == Append(prev, segment)

\* setQAList((prev) => [...prev, qa])
addQA(list, qa) == Append(list, qa)

\* clearInterval(chunkTimerRef.current)
clearInterval(ts, ref) == {t \in ts : t.id # ref}

\* setInterval(() => { if (transcript.length > 0) createSummary() }, chunkIntervalMs)
setInterval(ts, id, snapshot) ==
  ts \cup {[id |-> id, transcript |-> snapshot, due |-> now + chunkIntervalMs]}

\* the effect cleanup that React runs when recordingState.isRecording changes:
\* it was created by the render with the old value of isRecording
cleanupStops(wasRecording) == wasRecording

\* toast.success / toast.error / toast.info: `ref` names the call or request
toast(msg, ref) == toasts \cup {[msg |-> msg, ref |-> ref]}

ActiveCalls == {c \in calls : c.kind \in {"start", "stop"}}

logCall(kind, snapshot, done) ==
  Append(callLog, [kind |-> kind, transcript |-> snapshot,
                   session |-> IF kind = "start" THEN session + 1 ELSE session,
                   done |-> done])

logDone(id) == [callLog EXCEPT ![id].done = TRUE]

newCall(kind, pc, snapshot) ==
  [id |-> Len(callLog) + 1, kind |-> kind, pc |-> pc, transcript |-> snapshot,
   cancelled |-> FALSE]

\* the rest of toggleRecording's start branch once startRecognition returned
\* to a call whose closure holds `snapshot`: the chunk timer is set
StartContinuation(ts, id, snapshot) ==
  /\ toasts' = toast("Recording started", id)
  /\ timerCount' = timerCount + 1
  /\ chunkTimerRef' = timerCount + 1
  /\ timers' = setInterval(ts, timerCount + 1, snapshot)

\* startRecognition once a token is at hand, in a call of toggleRecording
\* whose closure holds `snapshot`: either it suspends in getUserMedia or it
\* runs to its return and the toggle call continues
StartAfterToken(s, ts, id, snapshot, cancelled) ==
  IF ~s.microphoneStream
  THEN /\ svc' = s
       /\ calls' = {c \in calls : c.id # id} \cup
                   {[id |-> id, kind |-> "start", pc |-> "mic",
                     transcript |-> snapshot, cancelled |-> cancelled]}
       /\ timers' = ts
       /\ UNCHANGED <<recognizers, audioLevel, audioLevelHistory, timerCount,
                      chunkTimerRef, toasts>>
       /\ callLog' = IF id > Len(callLog) THEN logCall("start", snapshot, FALSE)
                     ELSE callLog
  ELSE \E level \in Levels :
       /\ svc' = startCompleted(s, recognizers, TRUE)
       /\ recognizers' = Append(recognizers, "starting")
       /\ audioLevelHistory' = pushAudioLevel(audioLevelHistory, level)
       /\ audioLevel' = level
       /\ calls' = {c \in calls : c.id # id}
       /\ StartContinuation(ts, id, snapshot)
       /\ callLog' = IF id > Len(callLog) THEN logCall("start", snapshot, TRUE)
                     ELSE logDone(id)

\* toggleRecording invoked while recordingState.isRecording is false
ToggleStart ==
  /\ ~isRecording
  /\ Len(callLog) < MaxClicks
  /\ isRecording' = TRUE
  /\ transcript' = <<>>
  /\ lastSummaryTimeRef' = now
  /\ session' = session + 1
  /\ LET cleaned == clearInterval(timers, chunkTimerRef)
         id == Len(callLog) + 1
     IN
       IF svc.isListening
       THEN \* startRecognition returns at once
            /\ StartContinuation(cleaned, id, transcript)
            /\ callLog' = logCall("start", transcript, TRUE)
            /\ UNCHANGED <<svc, recognizers, audioLevel, audioLevelHistory, calls>>
       ELSE IF ~tokenValid(svc, now)
       THEN \* suspended in getAuthToken (the token request)
            /\ calls' = calls \cup {newCall("start", "token", transcript)}
            /\ callLog' = logCall("start", transcript, FALSE)
            /\ timers' = cleaned
            /\ UNCHANGED <<svc, recognizers, audioLevel, audioLevelHistory,
                           timerCount, chunkTimerRef, toasts>>
       ELSE StartAfterToken(svc, cleaned, id, transcript, FALSE)
  /\ UNCHANGED <<summaries, requests, delivered, fires, frames, now>>
  /\ UNCHANGED <<lastSpeakerId, speechHistory, voicePatterns,
                 speakerConsistencyCounter, lastSpeechTime>>
  /\ UNCHANGED textVars
  /\ UNCHANGED opsVars
  /\ UNCHANGED qaVars
  /\ UNCHANGED statusVars
  /\ UNCHANGED wsVars
  /\ UNCHANGED chunkerVars
  /\ UNCHANGED interimVars

\* the token request of a suspended startRecognition succeeded
TokenIssued(c) ==
  /\ c \in calls /\ c.kind = "start" /\ c.pc = "token"
  /\ StartAfterToken([svc EXCEPT !.tokenExpiry = now + tokenLifetimeMs],
                     timers, c.id, c.transcript, c.cancelled)
  /\ UNCHANGED <<isRecording, transcript, summaries, lastSummaryTimeRef, requests,
                 session, delivered, fires, frames, now>>
  /\ UNCHANGED <<lastSpeakerId, speechHistory, voicePatterns,
                 speakerConsistencyCounter, lastSpeechTime>>
  /\ UNCHANGED textVars
  /\ UNCHANGED opsVars
  /\ UNCHANGED qaVars
  /\ UNCHANGED statusVars
  /\ UNCHANGED wsVars
  /\ UNCHANGED chunkerVars
  /\ UNCHANGED interimVars

\* getUserMedia of a suspended startRecognition settled: with the stream, or
\* with an error that setupAudioLevelMonitoring logs
MicrophoneSettled(c, granted) ==
  /\ c \in calls /\ c.kind = "start" /\ c.pc = "mic"
  /\ svc' = startCompleted(svc, recognizers, granted)
  /\ recognizers' = Append(recognizers, "starting")
  /\ IF granted
     THEN \E level \in Levels :
            /\ audioLevelHistory' = pushAudioLevel(audioLevelHistory, level)
            /\ audioLevel' = level
     ELSE UNCHANGED <<audioLevelHistory, audioLevel>>
  /\ calls' = calls \ {c}
  /\ StartContinuation(timers, c.id, c.transcript)
  /\ callLog' = logDone(c.id)
  /\ UNCHANGED <<isRecording, transcript, summaries, lastSummaryTimeRef, requests,
                 session, delivered, fires, frames, now>>
  /\ UNCHANGED <<lastSpeakerId, speechHistory, voicePatterns,
                 speakerConsistencyCounter, lastSpeechTime>>
  /\ UNCHANGED textVars
  /\ UNCHANGED opsVars
  /\ UNCHANGED qaVars
  /\ UNCHANGED statusVars
  /\ UNCHANGED wsVars
  /\ UNCHANGED chunkerVars
  /\ UNCHANGED interimVars

\* the token request of a suspended startRecognition failed: startRecognition
\* rejects, toggleRecording resets recordingState; if that changes isRecording
\* the effect cleanup stops the service and clears the timer
TokenFailed(c) ==
  /\ c \in calls /\ c.kind = "start" /\ c.pc = "token"
  /\ isRecording' = FALSE
  /\ LET failed == [svc EXCEPT !.isListening = FALSE] IN
       IF cleanupStops(isRecording)
       THEN /\ svc' = stopRecognition(failed)
            /\ recognizers' = stopRecognitionSdk(failed, recognizers)
            /\ timers' = clearInterval(timers, chunkTimerRef)
            /\ calls' = (calls \ {c}) \cup
                 (IF stopSuspends(failed)
                  THEN {[id |-> c.id, kind |-> "cleanup", pc |-> "closing",
                         transcript |-> <<>>, cancelled |-> FALSE]}
                  ELSE {})
       ELSE /\ svc' = failed
            /\ calls' = calls \ {c}
            /\ UNCHANGED <<recognizers, timers>>
  /\ callLog' = logDone(c.id)
  /\ UNCHANGED <<transcript, summaries, audioLevel, lastSummaryTimeRef, chunkTimerRef,
                 timerCount, requests, session, delivered, fires, frames, now>>
  /\ UNCHANGED heurVars
  /\ UNCHANGED textVars
  /\ toasts' = toast("Error starting recording", c.id)
  /\ UNCHANGED opsVars
  /\ UNCHANGED qaVars
  /\ UNCHANGED statusVars
  /\ UNCHANGED wsVars
  /\ UNCHANGED chunkerVars
  /\ UNCHANGED interimVars

\* the rest of toggleRecording's stop branch once stopRecognition returned
StopContinuation(ts, id, snapshot, sess) ==
  /\ toasts' = toast("Recording stopped", id)
  /\ requests' = createSummary(requests, snapshot, "stop", id, sess)
  /\ timers' = clearInterval(ts, chunkTimerRef)
  /\ chunkTimerRef' = 0

\* toggleRecording invoked while recordingState.isRecording is true.  The
\* call of stopRecognition is followed, when React commits isRecording =
\* false, by the effect cleanup's own stopRecognition and clearInterval.
ToggleStop ==
  /\ isRecording
  /\ Len(callLog) < MaxClicks
  /\ isRecording' = FALSE
  /\ audioLevel' = 0
  /\ LET id == Len(callLog) + 1
         first == stopRecognition(svc)
         firstSdk == stopRecognitionSdk(svc, recognizers)
         cleaned == clearInterval(timers, chunkTimerRef)
         pending == {[c EXCEPT !.cancelled = (c.kind = "start")] : c \in calls}
     IN
       /\ svc' = stopRecognition(first)
       /\ recognizers' = stopRecognitionSdk(first, firstSdk)
       /\ IF stopSuspends(svc)
          THEN /\ calls' = pending \cup {newCall("stop", "closing", transcript)}
               /\ callLog' = logCall("stop", transcript, FALSE)
               /\ timers' = cleaned
               /\ UNCHANGED <<requests, chunkTimerRef, toasts>>
          ELSE /\ calls' = pending
               /\ callLog' = logCall("stop", transcript, TRUE)
               /\ StopContinuation(cleaned, id, transcript, session)
  /\ UNCHANGED <<transcript, summaries, lastSummaryTimeRef, timerCount, session,
                 delivered, fires, frames, now>>
  /\ UNCHANGED heurVars
  /\ UNCHANGED textVars
  /\ UNCHANGED opsVars
  /\ UNCHANGED qaVars
  /\ UNCHANGED statusVars
  /\ UNCHANGED wsVars
  /\ UNCHANGED chunkerVars
  /\ UNCHANGED interimVars

\* audioContext.close() of a suspended stopRecognition settled
CloseSettled(c) ==
  /\ c \in calls /\ c.pc = "closing"
  /\ svc' = stopResumed(svc)
  /\ recognizers' = closeRecognizer(svc, recognizers)
  /\ calls' = calls \ {c}
  /\ IF c.kind = "stop"
     THEN /\ StopContinuation(timers, c.id, c.transcript, callLog[c.id].session)
          /\ callLog' = logDone(c.id)
     ELSE UNCHANGED <<requests, timers, chunkTimerRef, callLog, toasts>>
  /\ UNCHANGED <<isRecording, transcript, summaries, audioLevel, lastSummaryTimeRef,
                 timerCount, session, delivered, fires, frames, now>>
  /\ UNCHANGED heurVars
  /\ UNCHANGED textVars
  /\ UNCHANGED opsVars
  /\ UNCHANGED qaVars
  /\ UNCHANGED statusVars
  /\ UNCHANGED wsVars
  /\ UNCHANGED chunkerVars
  /\ UNCHANGED interimVars

\* (mutant) the start of a session resets the speaker heuristic
StartSucceededNewSpeaker(r) ==
  /\ r \in 1..Len(recognizers) /\ recognizers[r] = "starting"
  /\ recognizers' = [recognizers EXCEPT ![r] = "running"]
  /\ svc' = [svc EXCEPT !.isListening = TRUE]
  /\ lastSpeakerId' = "Speaker 1"
  /\ speechHistory' = <<>>
  /\ voicePatterns' = {}
  /\ speakerConsistencyCounter' = 0
  /\ lastSpeechTime' = 0
  /\ UNCHANGED audioLevelHistory
  /\ UNCHANGED <<isRecording, transcript, summaries, audioLevel, lastSummaryTimeRef,
                 chunkTimerRef, timers, timerCount, calls, requests, callLog,
                 session, delivered, fires, frames, now>>
  /\ UNCHANGED textVars
  /\ UNCHANGED toasts
  /\ UNCHANGED opsVars
  /\ UNCHANGED qaVars
  /\ UNCHANGED statusVars
  /\ UNCHANGED wsVars
  /\ UNCHANGED chunkerVars
  /\ UNCHANGED interimVars

\* startContinuousRecognitionAsync's success callback / sessionStarted
StartSucceeded(r) ==
  /\ r \in 1..Len(recognizers) /\ recognizers[r] = "starting"
  /\ recognizers' = [recognizers EXCEPT ![r] = "running"]
  /\ svc' = [svc EXCEPT !.isListening = TRUE]
  /\ UNCHANGED <<isRecording, transcript, summaries, audioLevel, lastSummaryTimeRef,
                 chunkTimerRef, timers, timerCount, calls, requests, callLog,
                 session, delivered, fires, frames, now>>
  /\ UNCHANGED heurVars
  /\ UNCHANGED textVars
  /\ UNCHANGED toasts
  /\ UNCHANGED opsVars
  /\ UNCHANGED qaVars
  /\ UNCHANGED statusVars
  /\ UNCHANGED wsVars
  /\ UNCHANGED chunkerVars
  /\ UNCHANGED interimVars

\* startContinuousRecognitionAsync's error callback: it clears isListening
\* and throws inside the SDK's callback, after startRecognition has returned
StartFailed(r) ==
  /\ r \in 1..Len(recognizers) /\ recognizers[r] = "starting"
  /\ recognizers' = [recognizers EXCEPT ![r] = "failed"]
  /\ svc' = [svc EXCEPT !.isListening = FALSE]
  /\ UNCHANGED <<isRecording, transcript, summaries, audioLevel, lastSummaryTimeRef,
                 chunkTimerRef, timers, timerCount, calls, requests, toasts, callLog,
                 session, delivered, fires, frames, now>>
  /\ UNCHANGED heurVars
  /\ UNCHANGED textVars
  /\ UNCHANGED opsVars
  /\ UNCHANGED qaVars
  /\ UNCHANGED statusVars
  /\ UNCHANGED wsVars
  /\ UNCHANGED chunkerVars
  /\ UNCHANGED interimVars

\* recognizer.canceled with reason Error: the handler logs the error and
\* clears isListening; recognition on that recognizer has ended
Canceled(r) ==
  /\ r \in 1..Len(recognizers) /\ recognizers[r] = "running"
  /\ recognizers' = [recognizers EXCEPT ![r] = "canceled"]
  /\ svc' = [svc EXCEPT !.isListening = FALSE]
  /\ UNCHANGED <<isRecording, transcript, summaries, audioLevel, lastSummaryTimeRef,
                 chunkTimerRef, timers, timerCount, calls, requests, toasts, callLog,
                 session, delivered, fires, frames, now>>
  /\ UNCHANGED heurVars
  /\ UNCHANGED textVars
  /\ UNCHANGED opsVars
  /\ UNCHANGED qaVars
  /\ UNCHANGED statusVars
  /\ UNCHANGED wsVars
  /\ UNCHANGED chunkerVars
  /\ UNCHANGED interimVars

\* recognizer.recognized -> handleTranscriptSegment, for a running recognizer
SegmentReceived(r, isQ) ==
  /\ r \in 1..Len(recognizers) /\ recognizers[r] = "running"
  /\ Len(delivered) < MaxSegments
  /\ isQ => Len(asks) < MaxQuestions
  /\ transcript' = addTranscriptSegment(transcript, Len(delivered) + 1)
  /\ delivered' = Append(delivered, [session |-> session, recording |-> isRecording,
                                     isQuestion |-> isQ])
  /\ asks' = IF isQ
             THEN handleQuestion(asks, Len(delivered) + 1, serviceClosureTranscript)
             ELSE asks
  /\ UNCHANGED qaList
  /\ IF lastSummaryTimeRef = -1 \/ now - lastSummaryTimeRef >= chunkIntervalMs
     THEN /\ requests' = createSummary(requests, serviceClosureTranscript, "segment", 0, session)
          /\ lastSummaryTimeRef' = now
     ELSE UNCHANGED <<requests, lastSummaryTimeRef>>
  /\ UNCHANGED <<svc, recognizers, isRecording, summaries, audioLevel, chunkTimerRef,
                 timers, timerCount, calls, callLog, session, fires, frames, now>>
  /\ UNCHANGED heurVars
  /\ UNCHANGED textVars
  /\ UNCHANGED toasts
  /\ UNCHANGED opsVars
  /\ UNCHANGED interimVars
  /\ UNCHANGED chunkerVars
  /\ UNCHANGED wsVars
  /\ UNCHANGED statusVars

\* the chunk timer's callback
ChunkTimerFired(t) ==
  /\ t \in timers /\ t.due <= now
  /\ requests' = createSummary(requests, t.transcript, "timer", 0, session)
  /\ timers' = (timers \ {t}) \cup {[t EXCEPT !.due = t.due + chunkIntervalMs]}
  /\ fires' = fires + 1
  /\ UNCHANGED <<svc, recognizers, isRecording, transcript, summaries, audioLevel,
                 lastSummaryTimeRef, chunkTimerRef, timerCount, calls, callLog,
                 session, delivered, frames, now>>
  /\ UNCHANGED heurVars
  /\ UNCHANGED textVars
  /\ UNCHANGED toasts
  /\ UNCHANGED opsVars
  /\ UNCHANGED qaVars
  /\ UNCHANGED statusVars
  /\ UNCHANGED wsVars
  /\ UNCHANGED chunkerVars
  /\ UNCHANGED interimVars

\* a chunk interval passes (due timer callbacks run first)
IntervalElapsed ==
  /\ now < Epoch + MaxTicks * chunkIntervalMs
  /\ \A t \in timers : t.due > now
  /\ now' = now + chunkIntervalMs
  /\ UNCHANGED appVars
  /\ UNCHANGED heurVars
  /\ UNCHANGED textVars
  /\ UNCHANGED opsVars
  /\ UNCHANGED qaVars
  /\ UNCHANGED statusVars
  /\ UNCHANGED wsVars
  /\ UNCHANGED chunkerVars
  /\ UNCHANGED interimVars

\* generateSummary resolved: createSummary adds the chunk
SummaryResolved(i) ==
  /\ i \in 1..Len(requests) /\ requests[i].state = "pending"
  /\ requests' = [requests EXCEPT ![i].state = "ok"]
  /\ summaries' = Append(summaries,
        [relatedTranscriptIds |-> requests[i].segs, session |-> requests[i].session])
  /\ UNCHANGED <<svc, recognizers, isRecording, transcript, audioLevel,
                 lastSummaryTimeRef, chunkTimerRef, timers, timerCount, calls,
                 callLog, session, delivered, fires, frames, now>>
  /\ UNCHANGED heurVars
  /\ UNCHANGED textVars
  /\ toasts' = toast("Created a new summary", i)
  /\ UNCHANGED opsVars
  /\ UNCHANGED qaVars
  /\ UNCHANGED statusVars
  /\ UNCHANGED wsVars
  /\ UNCHANGED chunkerVars
  /\ UNCHANGED interimVars

\* generateSummary rejected: createSummary reports the failure
SummaryRejected(i) ==
  /\ i \in 1..Len(requests) /\ requests[i].state = "pending"
  /\ requests' = [requests EXCEPT ![i].state = "failed"]
  /\ UNCHANGED <<svc, recognizers, isRecording, transcript, summaries, audioLevel,
                 lastSummaryTimeRef, chunkTimerRef, timers, timerCount, calls,
                 callLog, session, delivered, fires, frames, now>>
  /\ UNCHANGED heurVars
  /\ UNCHANGED textVars
  /\ toasts' = toast("Failed to create summary", i)
  /\ UNCHANGED opsVars
  /\ UNCHANGED qaVars
  /\ UNCHANGED statusVars
  /\ UNCHANGED wsVars
  /\ UNCHANGED chunkerVars
  /\ UNCHANGED interimVars

\* askQuestion, submitted by the user
AskQuestion ==
  /\ Len(asks) < MaxQuestions
  /\ asks' = askQuestion(asks, ManualQuestion, transcript)
  /\ UNCHANGED qaList
  /\ UNCHANGED appVars
  /\ UNCHANGED heurVars
  /\ UNCHANGED textVars
  /\ UNCHANGED opsVars
  /\ UNCHANGED now
  /\ UNCHANGED interimVars
  /\ UNCHANGED chunkerVars
  /\ UNCHANGED wsVars
  /\ UNCHANGED statusVars

\* answerQuestion resolved: handleQuestion / askQuestion append the QAPair
AnswerResolved(i) ==
  /\ i \in 1..Len(asks) /\ asks[i].state = "pending"
  /\ asks' = [asks EXCEPT ![i].state = "answered"]
  /\ qaList' = addQA(qaList, QAPair(asks[i], LlmAnswer))
  /\ toasts' = IF asks[i].isManual THEN toasts
               ELSE toast("New question detected and answered", i)
  /\ UNCHANGED <<svc, recognizers, isRecording, transcript, summaries, audioLevel,
                 lastSummaryTimeRef, chunkTimerRef, timers, timerCount, calls,
                 requests, callLog, session, delivered, fires, frames, now>>
  /\ UNCHANGED heurVars
  /\ UNCHANGED textVars
  /\ UNCHANGED opsVars
  /\ UNCHANGED interimVars
  /\ UNCHANGED chunkerVars
  /\ UNCHANGED wsVars
  /\ UNCHANGED statusVars

\* answerQuestion rejected: the catch branches append the fallback QAPair
AnswerRejected(i) ==
  /\ i \in 1..Len(asks) /\ asks[i].state = "pending"
  /\ asks' = [asks EXCEPT ![i].state = "failed"]
  /\ qaList' = addQA(qaList, QAPair(asks[i], FallbackAnswer))
  /\ toasts' = IF asks[i].isManual THEN toast("Failed to answer question", i)
               ELSE toasts
  /\ UNCHANGED <<svc, recognizers, isRecording, transcript, summaries, audioLevel,
                 lastSummaryTimeRef, chunkTimerRef, timers, timerCount, calls,
                 requests, callLog, session, delivered, fires, frames, now>>
  /\ UNCHANGED heurVars
  /\ UNCHANGED textVars
  /\ UNCHANGED opsVars
  /\ UNCHANGED interimVars
  /\ UNCHANGED chunkerVars
  /\ UNCHANGED wsVars
  /\ UNCHANGED statusVars

\* updateLevel run by requestAnimationFrame
FrameRun(level) ==
  /\ svc.animationFrameId
  /\ frames < MaxFrames
  /\ frames' = frames + 1
  /\ IF svc.audioContext = "none"
     THEN /\ svc' = [svc EXCEPT !.animationFrameId = FALSE]
          /\ UNCHANGED <<audioLevelHistory, audioLevel>>
     ELSE /\ audioLevelHistory' = pushAudioLevel(audioLevelHistory, level)
          /\ audioLevel' = level
          /\ svc' = [svc EXCEPT !.animationFrameId = svc.isListening]
  /\ UNCHANGED <<recognizers, isRecording, transcript, summaries, lastSummaryTimeRef,
                 chunkTimerRef, timers, timerCount, calls, requests, callLog,
                 session, delivered, fires, now>>
  /\ UNCHANGED <<lastSpeakerId, speechHistory, voicePatterns,
                 speakerConsistencyCounter, lastSpeechTime>>
  /\ UNCHANGED textVars
  /\ UNCHANGED toasts
  /\ UNCHANGED opsVars
  /\ UNCHANGED qaVars
  /\ UNCHANGED statusVars
  /\ UNCHANGED wsVars
  /\ UNCHANGED chunkerVars
  /\ UNCHANGED interimVars

Next ==
  \/ ToggleStart
  \/ ToggleStop
  \/ \E c \in calls : TokenIssued(c)
  \/ \E c \in calls : TokenFailed(c)
  \/ \E c \in calls : \E granted \in BOOLEAN : MicrophoneSettled(c, granted)
  \/ \E c \in calls : CloseSettled(c)
  \/ \E r \in 1..Len(recognizers) : StartSucceeded(r)
  \/ \E r \in 1..Len(recognizers) : StartFailed(r)
  \/ \E r \in 1..Len(recognizers) : Canceled(r)
  \/ \E r \in 1..Len(recognizers) : \E isQ \in BOOLEAN : SegmentReceived(r, isQ)
  \/ AskQuestion
  \/ \E i \in 1..Len(asks) : AnswerResolved(i)
  \/ \E i \in 1..Len(asks) : AnswerRejected(i)
  \/ \E t \in timers : ChunkTimerFired(t)
  \/ IntervalElapsed
  \/ \E i \in 1..Len(requests) : SummaryResolved(i)
  \/ \E i \in 1..Len(requests) : SummaryRejected(i)
  \/ \E level \in Levels : FrameRun(level)

Spec == Init /\ [][Next]_vars

(***************************************************************************)
(* SpecSessions: recording sessions with utterances.  The user starts and  *)
(* stops recordings on the one service instance of the provider, and a     *)
(* running recognizer delivers finalized utterances to the heuristic.      *)
(***************************************************************************)
SessionTextIds == {"ship"}

SessionPauses == {900, 3000}

\* recognizer.recognized of a running recognizer
Utterance(r, textId, pause) ==
  /\ r \in 1..Len(recognizers) /\ recognizers[r] = "running"
  /\ Recognized(textId, pause)

NextSessions ==
  \/ ToggleStart
  \/ ToggleStop
  \/ \E c \in calls : TokenIssued(c)
  \/ \E c \in calls : \E granted \in BOOLEAN : MicrophoneSettled(c, granted)
  \/ \E c \in calls : CloseSettled(c)
  \/ \E r \in 1..Len(recognizers) : StartSucceeded(r)
  \/ \E r \in 1..Len(recognizers) : \E textId \in SessionTextIds :
       \E pause \in SessionPauses : Utterance(r, textId, pause)

SpecSessions == Init /\ [][NextSessions]_vars

(***************************************************************************)
(* SpecStatus: the connection statuses.  A page is loaded on a browser     *)
(* with empty storage; its mount effect checks the configured services;    *)
(* the user tests connections in the settings dialog, clicks the record    *)
(* control when it is enabled, and reloads the page.  useKV writes a       *)
(* status to localStorage in the effect of the render that shows it, taken *)
(* here as one step with the update.                                       *)
(***************************************************************************)
MaxReloads == 2
MaxTests == 2

Services == {"stt", "openai"}

\* useKV's initial value: the stored item, or the default without one
useKVInitial(item, defaultValue) == IF item = "none" THEN defaultValue ELSE item

\* isConnected ? 'connected' : 'error'
statusOf(ok) == IF ok THEN "connected" ELSE "error"

\* the RecordButton's disabled prop
recordDisabled(stt, openai) == stt # "connected" \/ openai # "connected"

InitStatus ==
  /\ InitSpeaker
  /\ InitApp
  /\ InitOps
  /\ asks = <<>>
  /\ qaList = <<>>
  /\ onInterimTextReceived = FALSE
  /\ NoInterim
  /\ InitWebSpeech
  /\ InitChunker
  /\ resultText = <<>>
  /\ emitted = <<>>
  /\ now = Epoch
  /\ kvStatus = [stt |-> "none", openai |-> "none"]
  /\ sttStatus = useKVInitial(kvStatus.stt, "disconnected")
  /\ openaiStatus = useKVInitial(kvStatus.openai, "disconnected")
  /\ settingsOk \in [stt : BOOLEAN, openai : BOOLEAN]
  /\ startupCheck = IdleStartupCheck
  /\ statusTests = {}
  /\ pageMounted = FALSE
  /\ pageLoads = 1
  /\ testCount = 0

StatusUnchangedRest ==
  /\ UNCHANGED heurVars
  /\ UNCHANGED appVars
  /\ UNCHANGED textVars
  /\ UNCHANGED opsVars
  /\ UNCHANGED qaVars
  /\ UNCHANGED interimVars
  /\ UNCHANGED chunkerVars
  /\ UNCHANGED wsVars
  /\ UNCHANGED now

\* the mount effects: useKV stores the statuses, checkInitialConnections runs
\* up to its first await
PageLoaded ==
  /\ ~pageMounted
  /\ pageMounted' = TRUE
  /\ IF settingsOk.stt /\ sttStatus = "disconnected"
     THEN /\ sttStatus' = "connecting"
          /\ startupCheck' = [pc |-> "stt", openaiAtMount |-> openaiStatus]
          /\ UNCHANGED openaiStatus
     ELSE IF settingsOk.openai /\ openaiStatus = "disconnected"
     THEN /\ openaiStatus' = "connecting"
          /\ startupCheck' = [pc |-> "openai", openaiAtMount |-> openaiStatus]
          /\ UNCHANGED sttStatus
     ELSE UNCHANGED <<sttStatus, openaiStatus, startupCheck>>
  /\ kvStatus' = [stt |-> sttStatus', openai |-> openaiStatus']
  /\ UNCHANGED <<settingsOk, statusTests, pageLoads, testCount>>
  /\ StatusUnchangedRest

\* checkInitialConnections resumed after `await tempService.checkConnection()`;
\* sttStatus and openaiStatus in it are the values of the mount render
StartupSettled(ok) ==
  /\ startupCheck.pc # "idle"
  /\ IF startupCheck.pc = "stt"
     THEN /\ IF settingsOk.openai /\ startupCheck.openaiAtMount = "disconnected"
             THEN /\ openaiStatus' = "connecting"
                  /\ startupCheck' = [startupCheck EXCEPT !.pc = "openai"]
             ELSE /\ startupCheck' = IdleStartupCheck
                  /\ UNCHANGED openaiStatus
          /\ sttStatus' = statusOf(ok)
     ELSE /\ openaiStatus' = statusOf(ok)
          /\ startupCheck' = IdleStartupCheck
          /\ UNCHANGED sttStatus
  /\ kvStatus' = [stt |-> sttStatus', openai |-> openaiStatus']
  /\ UNCHANGED <<settingsOk, statusTests, pageMounted, pageLoads, testCount>>
  /\ StatusUnchangedRest

\* testSTTConnection / testOpenAIConnection up to `await fetch`; the test
\* button is disabled while its test runs
TestConnection(service) ==
  /\ pageMounted
  /\ testCount < MaxTests
  /\ service \notin statusTests
  /\ statusTests' = statusTests \cup {service}
  /\ testCount' = testCount + 1
  /\ IF service = "stt"
     THEN sttStatus' = "connecting" /\ UNCHANGED openaiStatus
     ELSE openaiStatus' = "connecting" /\ UNCHANGED sttStatus
  /\ kvStatus' = [stt |-> sttStatus', openai |-> openaiStatus']
  /\ UNCHANGED <<settingsOk, startupCheck, pageMounted, pageLoads>>
  /\ StatusUnchangedRest

\* the test's fetch settled: response.ok, or a failure status or exception
TestSettled(service, ok) ==
  /\ service \in statusTests
  /\ statusTests' = statusTests \ {service}
  /\ IF service = "stt"
     THEN sttStatus' = statusOf(ok) /\ UNCHANGED openaiStatus
     ELSE openaiStatus' = statusOf(ok) /\ UNCHANGED sttStatus
  /\ kvStatus' = [stt |-> sttStatus', openai |-> openaiStatus']
  /\ UNCHANGED <<settingsOk, startupCheck, pageMounted, pageLoads, testCount>>
  /\ StatusUnchangedRest

\* the page is reloaded: the requests of the old page are dropped with it and
\* useKV reads the stored statuses.  Modelled for pages whose record control
\* was not used, whose other state is the initial one.
Reload ==
  /\ pageMounted
  /\ pageLoads <= MaxReloads
  /\ callLog = <<>>
  /\ pageLoads' = pageLoads + 1
  /\ pageMounted' = FALSE
  /\ statusTests' = {}
  /\ startupCheck' = IdleStartupCheck
  /\ sttStatus' = useKVInitial(kvStatus.stt, "disconnected")
  /\ openaiStatus' = useKVInitial(kvStatus.openai, "disconnected")
  /\ UNCHANGED <<kvStatus, settingsOk, testCount>>
  /\ StatusUnchangedRest

\* a click on the record control, which the browser delivers unless the
\* control is disabled
RecordClicked ==
  /\ pageMounted
  /\ ~recordDisabled(sttStatus, openaiStatus)
  /\ (ToggleStart \/ ToggleStop)

NextStatus ==
  \/ PageLoaded
  \/ \E ok \in BOOLEAN : StartupSettled(ok)
  \/ \E service \in Services : TestConnection(service)
  \/ \E service \in Services : \E ok \in BOOLEAN : TestSettled(service, ok)
  \/ Reload
  \/ RecordClicked

SpecStatus == InitStatus /\ [][NextStatus]_vars

\* every request settles and a loaded page runs its mount effects
SpecStatusLive ==
  /\ SpecStatus
  /\ WF_vars(PageLoaded)
  /\ WF_vars(\E ok \in BOOLEAN : StartupSettled(ok))
  /\ WF_vars(\E service \in Services : \E ok \in BOOLEAN : TestSettled(service, ok))

(***************************************************************************)
(* Recording sessions: the properties of the service life cycle, the       *)
(* summary chunks and the chunk timer                                      *)
(***************************************************************************)
Range(seq) == {seq[i] : i \in 1..Len(seq)}

\* the ids of the segments received while session s was recording
SegmentsOf(s) ==
  {i \in 1..Len(delivered) : delivered[i].session = s /\ delivered[i].recording}

\* the SummaryChunks created for session s
ChunksOf(s) == {i \in 1..Len(summaries) : summaries[i].session = s}

\* a start call on which stopRecognition was called while it was suspended
\* resumes in this step and runs to its return
CancelledStartReturned(c) ==
  /\ c \in calls /\ c.kind = "start" /\ c.cancelled
  /\ \A d \in calls' : d.id # c.id

LastClickWasStop ==
  /\ Len(callLog) > 0
  /\ callLog[Len(callLog)].kind = "stop"
  /\ callLog[Len(callLog)].done

C1_PendingStartStep ==
  \A c \in calls :
    CancelledStartReturned(c) =>
      /\ recognizers' = recognizers
      /\ svc'.recognizer = svc.recognizer
      /\ svc'.microphoneStream = svc.microphoneStream
      /\ svc'.audioContext = svc.audioContext

C1_StoppedStaysStopped ==
  (LastClickWasStop /\ (\A c \in calls : c.kind # "stop")) =>
    (~svc.isListening /\ svc.recognizer = 0 /\
     \A r \in 1..Len(recognizers) : recognizers[r] = "closed")

\* C1: a start call that was suspended when stopRecognition ran creates no
\* recognizer, acquires no microphone and starts no monitoring when it
\* resumes; and once the last toggle was a completed stop, the service is
\* not listening and has no recognizer.
C1_StopCancelsPendingStart ==
  [][C1_PendingStartStep]_vars /\ []C1_StoppedStaysStopped

\* C2: the SummaryChunks of one session reference pairwise disjoint sets of
\* segment ids.
C2_ChunksDisjoint ==
  \A i, j \in 1..Len(summaries) :
    (i # j /\ summaries[i].session = summaries[j].session) =>
      Range(summaries[i].relatedTranscriptIds)
        \cap Range(summaries[j].relatedTranscriptIds) = {}

SessionStopped(s) ==
  \E k \in 1..Len(callLog) :
    callLog[k].kind = "stop" /\ callLog[k].session = s /\ callLog[k].done

AllRequestsSucceeded ==
  /\ ActiveCalls = {}
  /\ \A i \in 1..Len(requests) : requests[i].state = "ok"

\* C3: once a session has been stopped and every summary request has
\* succeeded, the ids referenced by the session's chunks are exactly the ids
\* of the segments received in the session.
C3_ChunksCoverSession ==
  \A s \in 1..session :
    (SessionStopped(s) /\ AllRequestsSucceeded) =>
      UNION {Range(summaries[i].relatedTranscriptIds) : i \in ChunksOf(s)}
        = SegmentsOf(s)

StopRequestsOf(k) ==
  {i \in 1..Len(requests) : requests[i].by = "stop" /\ requests[i].call = k}

\* C4: as soon as the recording state is idle after a toggleRecording that
\* found segments in the transcript, exactly one summary request has been
\* issued for that call.
C4_FlushBeforeIdle ==
  \A k \in 1..Len(callLog) :
    (callLog[k].kind = "stop" /\ Len(callLog[k].transcript) > 0) =>
      Cardinality(StopRequestsOf(k)) = 1

C5_IntervalStep ==
  (fires' = fires + 1 /\ isRecording /\ Len(transcript) > 0) =>
    /\ Len(requests') = Len(requests) + 1
    /\ Range(requests'[Len(requests')].segs) \subseteq SegmentsOf(session)

\* C5: while recording, each run of the chunk timer's callback that finds a
\* segment in the current session's transcript issues a summary request over
\* segments of the current session.
C5_IntervalFlushes == [][C5_IntervalStep]_vars

\* C6: whenever isRecording is false and no toggleRecording call is running,
\* no chunk timer is active and the speech service is stopped; and at most
\* one chunk timer is active at any time.
C6_IdleMeansStopped ==
  /\ (~isRecording /\ ActiveCalls = {}) =>
       /\ timers = {}
       /\ ~svc.isListening /\ svc.recognizer = 0
       /\ \A r \in 1..Len(recognizers) : recognizers[r] = "closed"
  /\ Cardinality(timers) <= 1

(***************************************************************************)
(* Reading the utterances back from the heuristic's own state.  While the  *)
(* history is below its cap, entry i is utterance i: its speakerId is the  *)
(* label in force before the decision, and the label given to utterance i  *)
(* is the speakerId of entry i+1 (lastSpeakerId for the newest).           *)
(***************************************************************************)
Utterances == 1..Len(speechHistory)

labelBefore(i) == speechHistory[i].speakerId

labelOf(i) ==
  IF i < Len(speechHistory) THEN speechHistory[i + 1].speakerId ELSE lastSpeakerId

switchedAt(i) == labelOf(i) # labelBefore(i)

pauseOf(i) ==
  speechHistory[i].timestamp - (IF i = 1 THEN 0 ELSE speechHistory[i - 1].timestamp)

textOfUtt(i) == speechHistory[i].text

\* utterances i, i+1, i+2 are the scenario's three texts, 900 ms and 3100 ms apart
ScenarioAt(i) ==
  /\ i + 2 <= Len(speechHistory)
  /\ textOfUtt(i) = "plan" /\ textOfUtt(i + 1) = "ship" /\ textOfUtt(i + 2) = "good"
  /\ pauseOf(i + 1) = 900
  /\ pauseOf(i + 2) = 3100

\* number of utterances after the last switching one (all of them if none switched)
TrailingNonSwitches ==
  LET switches == {i \in Utterances : switchedAt(i)} IN
    IF switches = {} THEN Len(speechHistory)
    ELSE Len(speechHistory) - (CHOOSE i \in switches : \A j \in switches : j <= i)

\* a step in which determineSpeakerFromContext ran
UtteranceStep == Len(speechHistory') = Len(speechHistory) + 1

(***************************************************************************)
(* C7 (as stated): in a newly started session the three scenario           *)
(* utterances get question flags {true, false, false} and the label        *)
(* changes between utterances 1 and 2 and again between 2 and 3 (A, B, A). *)
(***************************************************************************)
C7_ScenarioAlternates ==
  (ScenarioAt(1) /\ Len(speechHistory) = 3) =>
     /\ QuestionFlag["plan"] /\ ~QuestionFlag["ship"] /\ ~QuestionFlag["good"]
     /\ labelOf(2) # labelOf(1)
     /\ labelOf(3) # labelOf(2)

(***************************************************************************)
(* C7 (amended): whenever the scenario's first utterance follows at least  *)
(* 3000 ms of silence (always so for a newly constructed service), the     *)
(* question flags are {true, false, false}, utterance 1 switches the       *)
(* speaker, the question->answer switch at utterance 2 is vetoed so that   *)
(* utterances 1 and 2 carry the same label, and the label changes between  *)
(* utterances 2 and 3: the labels have the form A, A, B.                   *)
(***************************************************************************)
C7_ScenarioVetoed ==
  \A i \in Utterances :
    (ScenarioAt(i) /\ pauseOf(i) >= 3000) =>
       /\ QuestionFlag["plan"] /\ ~QuestionFlag["ship"] /\ ~QuestionFlag["good"]
       /\ switchedAt(i)
       /\ labelOf(i + 1) = labelOf(i)
       /\ labelOf(i + 2) # labelOf(i + 1)

\* the scenario has run on a newly constructed service
C7_Witness == ScenarioAt(1) /\ Len(speechHistory) = 3 /\ pauseOf(1) >= 3000

(***************************************************************************)
(* C8: an utterance whose pause since the previous utterance is at most    *)
(* 800 ms and whose question flag equals the previous utterance's flag     *)
(* (no question/answer transition) keeps the previous speaker label.       *)
(***************************************************************************)
C8_NoSwitchWithoutSignal ==
  \A i \in Utterances :
    ( /\ i > 1
      /\ pauseOf(i) <= 800
      /\ QuestionFlag[textOfUtt(i)] = QuestionFlag[textOfUtt(i - 1)] )
    => labelOf(i) = labelBefore(i)

\* a short-pause utterance without transition, decided when the anti-flutter
\* guard was not in force (counter at least 2 before it), after a level sample
C8_Witness ==
  /\ Len(speechHistory) = 4
  /\ pauseOf(4) = 800
  /\ QuestionFlag[textOfUtt(4)] = QuestionFlag[textOfUtt(3)]
  /\ speakerConsistencyCounter = 3
  /\ speechHistory[4].audioLevel # speechHistory[1].audioLevel

(***************************************************************************)
(* C9: an utterance switches the speaker exactly when a signal fired and   *)
(* the switch is not vetoed, the veto being: a signal fired, the           *)
(* consistency counter is below 2 and the pause is under 3000 ms.  A       *)
(* vetoed utterance keeps the label and counts as a non-switch (counter    *)
(* + 1).  Hence two consecutive utterances both switch only if the pause   *)
(* before the second is at least 3000 ms.                                  *)
(***************************************************************************)
C9_VetoStep ==
  UtteranceStep =>
    LET entry  == speechHistory'[Len(speechHistory')]
        pause  == lastSpeechTime' - lastSpeechTime
        fired  == anyFactor(speechHistory', entry.text, entry.audioLevel, pause)
        vetoed == fired /\ speakerConsistencyCounter < 2 /\ pause < 3000
    IN  /\ vetoed => /\ lastSpeakerId' = lastSpeakerId
                     /\ speakerConsistencyCounter' = speakerConsistencyCounter + 1
        /\ (lastSpeakerId' # lastSpeakerId) <=> (fired /\ ~vetoed)

C9_NoConsecutiveSwitches ==
  \A i \in Utterances :
    (i > 1 /\ switchedAt(i - 1) /\ switchedAt(i)) => pauseOf(i) >= 3000

C9_AntiFlutter == [][C9_VetoStep]_vars /\ []C9_NoConsecutiveSwitches

\* a long pause (2600 ms) right after a switch was vetoed
C9_Witness ==
  /\ Len(speechHistory) >= 2
  /\ switchedAt(1)
  /\ pauseOf(2) = 2600
  /\ ~switchedAt(2)

(***************************************************************************)
(* C10: after a switching utterance the consistency counter is 0, after N  *)
(* consecutive non-switching utterances following a switch (or following   *)
(* construction) it is N, and only an utterance changes it.                *)
(***************************************************************************)
C10_CounterStep ==
  /\ UtteranceStep /\ lastSpeakerId' # lastSpeakerId => speakerConsistencyCounter' = 0
  /\ UtteranceStep /\ lastSpeakerId' = lastSpeakerId =>
       speakerConsistencyCounter' = speakerConsistencyCounter + 1
  /\ ~UtteranceStep => speakerConsistencyCounter' = speakerConsistencyCounter

C10_Counter ==
  [][C10_CounterStep]_vars /\ [](speakerConsistencyCounter = TrailingNonSwitches)

\* two non-switching utterances after a switch
C10_Witness ==
  /\ Len(speechHistory) = 3
  /\ switchedAt(1)
  /\ speakerConsistencyCounter = 2

(***************************************************************************)
(* C11: the current speaker label is always "Speaker 1" or "Speaker 2",    *)
(* every utterance is given one of these two labels, and a switch changes  *)
(* the label to the other one of the two.                                  *)
(***************************************************************************)
TwoLabels == {"Speaker 1", "Speaker 2"}

C11_TwoLabels ==
  /\ lastSpeakerId \in TwoLabels
  /\ \A i \in Utterances :
       /\ labelBefore(i) \in TwoLabels
       /\ labelOf(i) \in TwoLabels
       /\ switchedAt(i) => labelOf(i) \in TwoLabels \ {labelBefore(i)}

\* the label went to "Speaker 2" and came back to "Speaker 1"
C11_Witness ==
  \E i, j \in Utterances :
    /\ i < j
    /\ switchedAt(i) /\ labelOf(i) = "Speaker 2"
    /\ switchedAt(j) /\ labelOf(j) = "Speaker 1"

(***************************************************************************)
(* C12: a text whose trimmed form ends with "?" is detected as a question  *)
(* whatever its first word is, and the segment built from it has           *)
(* isQuestion = TRUE.                                                      *)
(***************************************************************************)
EndsWithQuestionMark(text) == endsWith(trim(text), <<"?">>)

C12_QuestionMark ==
  EndsWithQuestionMark(resultText) =>
    /\ isQuestion(resultText)
    /\ emitted # <<>> => emitted[1].isQuestion

\* a segment was built from " oh? ": no starter, blanks around
C12_Witness ==
  /\ emitted # <<>>
  /\ emitted[1].text = <<" ", "o", "h", "?", " ">>
  /\ emitted[1].isQuestion

(***************************************************************************)
(* C13: a text that does not end with "?" is detected as a question        *)
(* exactly when its first word, compared case-insensitively, is one of the *)
(* starters; a text consisting of the starter alone is included, a first   *)
(* word that only begins with a starter is not.                            *)
(***************************************************************************)
\* the characters of s before its first blank
firstWord(s) ==
  LET blanks == {i \in 1..Len(s) : s[i] = " "} IN
    IF blanks = {} THEN s
    ELSE SubSeq(s, 1, (CHOOSE i \in blanks : \A j \in blanks : i <= j) - 1)

FirstWordIsStarter(text) == firstWord(toLowerCase(trim(text))) \in questionStarters

C13_FirstWordStarter ==
  ~EndsWithQuestionMark(resultText) =>
    /\ isQuestion(resultText) <=> FirstWordIsStarter(resultText)
    /\ emitted # <<>> => (emitted[1].isQuestion <=> FirstWordIsStarter(resultText))

(***************************************************************************)
(* C14: the audio-level signal votes for a switch exactly when at least 3  *)
(* utterances precede the current one, the current level differs by more   *)
(* than 15 from the mean level of the last 3 preceding utterances, and the *)
(* pause exceeds 1500 ms.                                                  *)
(***************************************************************************)
C14_LevelStep ==
  UtteranceStep =>
    LET entry  == speechHistory'[Len(speechHistory')]
        pause  == lastSpeechTime' - lastSpeechTime
        prior  == sliceLast(speechHistory, 3)
        levels == [i \in 1..Len(prior) |-> prior[i].audioLevel]
        voted  == audioLevelChange(speechHistory', entry.audioLevel, pause)
    IN  voted <=> /\ Len(speechHistory) >= 3
                  /\ Abs(3 * entry.audioLevel - SumSeq(levels)) > 3 * 15
                  /\ pause > 1500

C14_LevelSignal == [][C14_LevelStep]_vars

(***************************************************************************)
(* C15: a start that fails, by a failed token request or by the SDK's      *)
(* start error callback, is reported, never announced as "Recording        *)
(* started", and leaves the recording state idle.                          *)
(***************************************************************************)
Toasted(msg, ref) == [msg |-> msg, ref |-> ref] \in toasts

C15_TokenFailureStep ==
  \A c \in calls :
    (c.kind = "start" /\ c.pc = "token" /\ (\A d \in calls' : d.id # c.id)
       /\ timerCount' = timerCount) =>
      /\ ~isRecording'
      /\ Toasted("Error starting recording", c.id)'
      /\ ~Toasted("Recording started", c.id)'

C15_NotRecordingOnFailedStart ==
  (isRecording /\ ActiveCalls = {} /\ svc.recognizer # 0) =>
    recognizers[svc.recognizer] # "failed"

C15_FailedStartGoesIdle ==
  [][C15_TokenFailureStep]_vars /\ []C15_NotRecordingOnFailedStart

(***************************************************************************)
(* C16: a cancellation with an error reason during a recording stops the   *)
(* session: the recording state returns to idle, the recognizer and the    *)
(* microphone are released and the error is shown; the application is      *)
(* never left recording on a canceled recognizer.                          *)
(***************************************************************************)
CanceledNow(r) == recognizers[r] = "running" /\ recognizers'[r] = "canceled"

C16_CancelStep ==
  \A r \in 1..Len(recognizers) :
    (isRecording /\ svc.recognizer = r /\ CanceledNow(r)) =>
      /\ ~isRecording'
      /\ svc'.recognizer = 0
      /\ ~svc'.microphoneStream
      /\ toasts' # toasts

C16_NotRecordingOnCanceled ==
  (isRecording /\ ActiveCalls = {} /\ svc.recognizer # 0) =>
    recognizers[svc.recognizer] # "canceled"

C16_CancelStopsSession ==
  [][C16_CancelStep]_vars /\ []C16_NotRecordingOnCanceled

(***************************************************************************)
(* C17: checkConnection, startRecognition, generateSummary and             *)
(* answerQuestion, invoked while a credential of their service is empty,   *)
(* fail fast: checkConnection yields false and the others reject with a    *)
(* configuration error, and none issues a network request, acquires the    *)
(* microphone or changes the listening or token state.                     *)
(***************************************************************************)
OpInvoked == Len(ops') = Len(ops) + 1

InvokedOp == ops'[Len(ops')]

SttOps == {"stt.checkConnection", "startRecognition"}

LlmOps == {"llm.checkConnection", "generateSummary", "answerQuestion"}

CredentialMissing(op) ==
  \/ op \in SttOps /\ ~(sttConfig.endpoint /\ sttConfig.subscriptionKey /\ sttConfig.region)
  \/ op \in LlmOps /\ ~(llmConfig.endpoint /\ llmConfig.subscriptionKey
                         /\ llmConfig.deploymentName)

FailedFast(e) ==
  IF e.op \in {"stt.checkConnection", "llm.checkConnection"}
  THEN e.result = "false"
  ELSE e.result = "rejected: not configured"

NoSideEffect ==
  /\ fetches' = fetches
  /\ svc' = svc
  /\ recognizers' = recognizers

\* the claim as stated
C17_OriginalStep ==
  (OpInvoked /\ CredentialMissing(InvokedOp.op))
    => (FailedFast(InvokedOp) /\ NoSideEffect)

C17_Original == [][C17_OriginalStep]_vars

\* C17 as the code has it: startRecognition tests isListening before the
\* credentials, so on a service that is already listening it returns
\* without an error; in every other case the operation fails fast, and in
\* every case it is without side effect
C17_FailFastStep ==
  (OpInvoked /\ CredentialMissing(InvokedOp.op))
    => /\ NoSideEffect
       /\ IF InvokedOp.op = "startRecognition" /\ svc.isListening
          THEN InvokedOp.result = "returned"
          ELSE FailedFast(InvokedOp)

C17_FailFast == [][C17_FailFastStep]_vars

C17_Witness ==
  /\ Len(ops) = 2
  /\ ops[1].op = "generateSummary" /\ ops[1].result = "rejected: not configured"
  /\ ops[2].op = "startRecognition" /\ ops[2].result = "rejected: not configured"
  /\ ~sttConfig.region /\ sttConfig.endpoint /\ sttConfig.subscriptionKey
  /\ fetches = 0
  /\ ~svc.isListening

(***************************************************************************)
(* C18: when a summary request fails, the failure is reported, no retry is *)
(* issued and no SummaryChunk is recorded for it, and the segments of the  *)
(* failed batch are included in the next summary request of the session.   *)
(***************************************************************************)
FailedNow(i) ==
  /\ i \in 1..Len(requests)
  /\ requests[i].state = "pending"
  /\ requests'[i].state = "failed"

\* the step in which request i fails: reported, nothing requested, no chunk
C18_FailureStep ==
  \A i \in 1..Len(requests) :
    FailedNow(i) => /\ Toasted("Failed to create summary", i)'
                    /\ Len(requests') = Len(requests)
                    /\ summaries' = summaries

\* a failed request of session s, over segments received while recording,
\* whose segments no later request took up
Unprocessed(i, s) ==
  /\ requests[i].state = "failed"
  /\ \A x \in Range(requests[i].segs) : delivered[x].recording
  /\ requests[i].session = s
  /\ \A k \in (i + 1)..Len(requests) :
       ~(Range(requests[i].segs) \subseteq Range(requests[k].segs))

\* the step in which a summary is requested: the request takes up the
\* segments of every failed batch of its session that are still unprocessed
C18_NextRequestStep ==
  Len(requests') = Len(requests) + 1 =>
    LET new == requests'[Len(requests')] IN
      \A i \in 1..Len(requests) :
        Unprocessed(i, new.session) => Range(requests[i].segs) \subseteq Range(new.segs)

C18_FailedSummary == [][C18_FailureStep /\ C18_NextRequestStep]_vars

(***************************************************************************)
(* C19: every question the orchestrator handles yields exactly one QAPair  *)
(* once its answerQuestion call has settled, with the answer on success    *)
(* and the fallback answer on failure: isManual = FALSE for a received     *)
(* segment with isQuestion = TRUE, isManual = TRUE for an askQuestion      *)
(* call; a segment with isQuestion = FALSE never yields a QAPair.          *)
(***************************************************************************)
PairsOf(question, manual) ==
  {k \in 1..Len(qaList) : qaList[k].question = question /\ qaList[k].isManual = manual}

AsksOf(question, manual) ==
  {i \in 1..Len(asks) : asks[i].question = question /\ asks[i].isManual = manual}

Settled(i) == asks[i].state # "pending"

ExpectedAnswer(i) == IF asks[i].state = "answered" THEN LlmAnswer ELSE FallbackAnswer

C19_OnePairPerQuestion ==
  /\ \A x \in 1..Len(delivered) :
       /\ PairsOf(x, TRUE) = {}
       /\ IF delivered[x].isQuestion
          THEN /\ Cardinality(AsksOf(x, FALSE)) = 1
               /\ \A i \in AsksOf(x, FALSE) :
                    IF Settled(i)
                    THEN /\ Cardinality(PairsOf(x, FALSE)) = 1
                         /\ \A k \in PairsOf(x, FALSE) : qaList[k].answer = ExpectedAnswer(i)
                    ELSE PairsOf(x, FALSE) = {}
          ELSE AsksOf(x, FALSE) = {} /\ PairsOf(x, FALSE) = {}
  /\ PairsOf(ManualQuestion, FALSE) = {}
  /\ Cardinality(PairsOf(ManualQuestion, TRUE))
       = Cardinality({i \in AsksOf(ManualQuestion, TRUE) : Settled(i)})
  /\ \A i \in AsksOf(ManualQuestion, TRUE) :
       Settled(i) => \E k \in PairsOf(ManualQuestion, TRUE) :
                       qaList[k].answer = ExpectedAnswer(i)
  /\ Len(qaList) = Cardinality({i \in 1..Len(asks) : Settled(i)})
  /\ \A k \in 1..Len(qaList) :
       qaList[k].question \in (1..Len(delivered)) \cup {ManualQuestion}

\* a detected question was answered with the fallback after a segment that
\* is no question was received
C19_Witness ==
  /\ Len(delivered) = 2
  /\ ~delivered[1].isQuestion /\ delivered[2].isQuestion
  /\ qaList = <<[question |-> 2, answer |-> FallbackAnswer, isManual |-> FALSE]>>

(***************************************************************************)
(* C20: the transcript is exactly the sequence of the segments delivered   *)
(* since the most recent start of recording, in the order of delivery: it  *)
(* is empty right after a start, no segment is lost, duplicated or         *)
(* reordered, and stopping leaves it as it is.                             *)
(***************************************************************************)
DeliveredIds == [i \in 1..Len(delivered) |-> i]

InSession(i) == delivered[i].session = session

C20_TranscriptIsSession ==
  transcript = SelectSeq(DeliveredIds, InSession)

\* a second recording was started and stopped: the transcript holds its
\* segment and not the one of the first recording
C20_Witness ==
  /\ session = 2
  /\ ~isRecording
  /\ Len(delivered) = 2
  /\ delivered[1].session = 1 /\ delivered[1].recording
  /\ delivered[2].session = 2 /\ delivered[2].recording
  /\ transcript = <<2>>

(***************************************************************************)
(* C21: the interim segments of one utterance carry the same id, and the   *)
(* first partial result after the final result of an utterance starts an   *)
(* interim segment with a different id.                                    *)
(***************************************************************************)
C21_SameIdWithinUtterance ==
  \A i, j \in 1..Len(interims) :
    interims[i].utterance = interims[j].utterance => interims[i].id = interims[j].id

C21_NewIdAfterFinal ==
  \A i, j \in 1..Len(interims) :
    interims[i].utterance # interims[j].utterance => interims[i].id # interims[j].id

C21_InterimSuperseded == C21_SameIdWithinUtterance /\ C21_NewIdAfterFinal

(***************************************************************************)
(* C22: while a recording session is active (startRecognition succeeded    *)
(* with a level callback and a microphone, stopRecognition was not called) *)
(* the audio level monitor keeps sampling: a sample is scheduled for the   *)
(* next animation frame.                                                   *)
(***************************************************************************)
SessionActive ==
  /\ isRecording
  /\ ActiveCalls = {}
  /\ svc.isListening
  /\ svc.recognizer # 0
  /\ recognizers[svc.recognizer] = "running"

MonitorSetUp == svc.microphoneStream /\ svc.audioContext = "open"

C22_MonitorKeepsSampling ==
  (SessionActive /\ MonitorSetUp) => svc.animationFrameId

(***************************************************************************)
(* C23: once stopRecognition has been called, the pending frame callback   *)
(* is cancelled and no level callback reaches the orchestrator: from the   *)
(* stop until the next start of a recording, audioLevel is 0 and no frame  *)
(* callback is scheduled.                                                  *)
(***************************************************************************)
LastClickIsStop ==
  /\ Len(callLog) > 0
  /\ callLog[Len(callLog)].kind = "stop"

C23_SilentAfterStop ==
  LastClickIsStop => (audioLevel = 0 /\ ~svc.animationFrameId)

(***************************************************************************)
(* C24: after stopRecognition has completed the service holds no           *)
(* microphone stream, no audio context and no recognizer, and every        *)
(* recognizer is closed; stopRecognition on a service that holds nothing   *)
(* changes nothing.                                                        *)
(***************************************************************************)
Released(s) == ~s.microphoneStream /\ s.audioContext = "none" /\ s.recognizer = 0

C24_ReleasedAfterStop ==
  (LastClickWasStop /\ (\A c \in calls : c.kind # "stop")) =>
    (Released(svc) /\ \A r \in 1..Len(recognizers) : recognizers[r] = "closed")

\* stopRecognition as an operation of the service, on its own
C24_StopOpStep ==
  (OpInvoked /\ InvokedOp.op = "stopRecognition") =>
    /\ Released(svc')
    /\ InvokedOp.result = "stopped"
    /\ (Released(svc) /\ ~svc.isListening) => (svc' = svc /\ recognizers' = recognizers)

C24_StopOp == [][C24_StopOpStep]_vars

(***************************************************************************)
(* C25: at the start of every recording session the chunker's set of       *)
(* processed segment ids is empty and its last-chunk time is the time of   *)
(* the start.                                                              *)
(***************************************************************************)
\* the commit in which the hook sees isRecording turn true
SessionStartCommit ==
  /\ hookDeps' # hookDeps
  /\ hookIsRecording
  /\ ~hookDeps.isRecording

C25_StartStep ==
  SessionStartCommit => (processedIds' = {} /\ lastChunkTime' = now)

C25_ChunkerResetAtStart == [][C25_StartStep]_vars

\* a second session has started after one in which a chunk was made
C25_Witness ==
  /\ hookToggles = 3
  /\ hookIsRecording /\ hookDeps.isRecording
  /\ Len(hookChunks) = 1
  /\ hookChunks[1].segments = <<1>>
  /\ hookTranscript = <<1>>
  /\ processedIds = {}
  /\ lastChunkTime = now

(***************************************************************************)
(* C26: when the LLM service is configured, answerQuestion answers a       *)
(* question asking for the current time or for today's date locally, the   *)
(* time question with the time and the date question with the date, and    *)
(* sends no request to the LLM endpoint.                                   *)
(***************************************************************************)
\* what each question asks for
TimeQuestions == {"whatTime", "currentTime"}

DateQuestions == {"todaysDate", "whatDay"}

AnswerInvoked ==
  /\ OpInvoked
  /\ InvokedOp.op = "answerQuestion"
  /\ llmConfig.endpoint /\ llmConfig.subscriptionKey /\ llmConfig.deploymentName

C26_LocalStep ==
  AnswerInvoked =>
    /\ InvokedOp.arg \in TimeQuestions =>
         (InvokedOp.result = "resolved: local time" /\ fetches' = fetches)
    /\ InvokedOp.arg \in DateQuestions =>
         (InvokedOp.result = "resolved: local date" /\ fetches' = fetches)

C27_OtherStep ==
  (AnswerInvoked /\ InvokedOp.arg \notin (TimeQuestions \cup DateQuestions)) =>
    /\ fetches' = fetches + 1
    /\ InvokedOp.result \in {"resolved: llm", "rejected: api"}

C27_OnlyTimeAnsweredLocally == [][C27_OtherStep]_vars

(***************************************************************************)
(* C28: the context handed to answerQuestion for a detected question is    *)
(* the transcript of the current session as received up to that question,  *)
(* not an empty or earlier snapshot.                                       *)
(***************************************************************************)
\* the segments of the question's session delivered before it, and with it
SessionBefore(q) ==
  SelectSeq(DeliveredIds,
            LAMBDA i : i < q /\ delivered[i].session = delivered[q].session)

SessionUpTo(q) == Append(SessionBefore(q), q)

C28_ContextIsSessionTranscript ==
  \A i \in 1..Len(asks) :
    ~asks[i].isManual =>
      asks[i].context \in {SessionBefore(asks[i].question),
                           SessionUpTo(asks[i].question)}

(***************************************************************************)
(* C29: in the Web Speech variant, once stopRecognition has been called    *)
(* (and startRecognition not called again), a timer callback, be it the    *)
(* restart timer of onend or the fallback timer of onerror, neither starts *)
(* a recognition nor sets the listening flag to true.                      *)
(***************************************************************************)
WsTimerFired == wsFires' = wsFires + 1

C29_TimerStep ==
  (wsStopped /\ WsTimerFired) =>
    ((wsIsListening' => wsIsListening) /\ wsRecognitions' = wsRecognitions)

C29_TimersSilentAfterStop == [][C29_TimerStep]_vars

(***************************************************************************)
(* C30: the utterance history never holds more than 15 entries and is      *)
(* always the most recently processed utterances in the order of arrival,  *)
(* the oldest being dropped first; the audio-level history never holds     *)
(* more than 20 samples.                                                   *)
(***************************************************************************)
\* in SpecHistory the n-th utterance is processed at Epoch + n * pause
HistoryPause == CHOOSE pause \in HistoryPauses : TRUE

UtterancesProcessed == (now - Epoch) \div HistoryPause

ArrivalTimes == [n \in 1..UtterancesProcessed |-> Epoch + n * HistoryPause]

C30_HistoryIsRecent ==
  /\ Len(speechHistory) <= 15
  /\ [i \in 1..Len(speechHistory) |-> speechHistory[i].timestamp]
       = sliceLast(ArrivalTimes, 15)
  /\ Len(audioLevelHistory) <= 20

\* seventeen utterances were processed: the history holds the third to the
\* seventeenth; the level history is full after a further sample
C30_Witness ==
  /\ UtterancesProcessed = 17
  /\ Len(speechHistory) = 15
  /\ speechHistory[1].timestamp = Epoch + 3 * HistoryPause
  /\ speechHistory[15].timestamp = Epoch + 17 * HistoryPause
  /\ Len(audioLevelHistory) = 20
  /\ speechHistory[15].audioLevel = 40

(***************************************************************************)
(* C31: whenever the speech service's isListening flag is true, the        *)
(* service holds a recognizer; a start-success or sessionStarted callback  *)
(* that arrives after stopRecognition does not leave the flag true with    *)
(* no recognizer.                                                          *)
(***************************************************************************)
C31_ListeningHasRecognizer == svc.isListening => svc.recognizer # 0

(***************************************************************************)
(* C32: whenever a recording is running the record control is enabled, so  *)
(* the user can stop it, also while a connection test has set a status to  *)
(* 'connecting' or 'error'.                                                *)
(***************************************************************************)
C32_RecordingCanBeStopped ==
  isRecording => ~recordDisabled(sttStatus, openaiStatus)

(***************************************************************************)
(* C36: a connection status of 'connecting' eventually becomes 'connected' *)
(* or 'error', also after a reload of the page during a check.             *)
(***************************************************************************)
Resolved(status) == status \in {"connected", "error"}

C36_ConnectingResolves ==
  /\ (sttStatus = "connecting") ~> Resolved(sttStatus)
  /\ (openaiStatus = "connecting") ~> Resolved(openaiStatus)

(***************************************************************************)
(* C33: stopping and starting recognition on the provider's service leaves *)
(* the speaker heuristic as it is: the current label, the utterance        *)
(* history, the consistency counter, the last-speech time and the speaker  *)
(* profiles carry over into the next session.                              *)
(***************************************************************************)
SpeakerState ==
  <<lastSpeakerId, speechHistory, speakerConsistencyCounter, lastSpeechTime,
    voicePatterns>>

\* a step of stopRecognition, of startRecognition or of the recognizer's
\* start callbacks
ServiceStep == svc' # svc \/ recognizers' # recognizers

C33_ServiceStepKeeps == ServiceStep => SpeakerState' = SpeakerState

C33_HeuristicCarriesOver == [][C33_ServiceStepKeeps]_vars

\* the second session's recognizer has been created and has not started yet:
\* the heuristic holds what the first session left
C33_Witness ==
  /\ session = 2
  /\ Len(recognizers) = 2 /\ recognizers[1] = "closed" /\ recognizers[2] = "starting"
  /\ svc.recognizer = 2
  /\ Len(speechHistory) = 2
  /\ lastSpeakerId = "Speaker 2"
  /\ lastSpeechTime = now
  /\ speakerConsistencyCounter = 1

(***************************************************************************)
(* C34: the first finalized utterance processed by a newly constructed     *)
(* service counts as a speaker switch: it is labelled "Speaker 2" and the  *)
(* consistency counter is 0 after it.                                      *)
(***************************************************************************)
C34_FirstUtteranceSwitches ==
  Len(speechHistory) >= 1 =>
    /\ labelBefore(1) = "Speaker 1"
    /\ labelOf(1) = "Speaker 2"
    /\ Len(speechHistory) = 1 => speakerConsistencyCounter = 0

\* the first utterance, a statement, has been processed
C34_Witness ==
  /\ Len(speechHistory) = 1
  /\ textOfUtt(1) = "ship"
  /\ lastSpeakerId = "Speaker 2"
  /\ speakerConsistencyCounter = 0
  /\ lastSpeechTime = speechHistory[1].timestamp

(***************************************************************************)
(* C35: every finalized utterance that follows the previous one after at   *)
(* least 3000 ms toggles the speaker label and sets the consistency        *)
(* counter to 0, whatever its text, the levels, the history and the        *)
(* counter.                                                                *)
(***************************************************************************)
C35_LongPauseSwitches ==
  \A i \in Utterances :
    pauseOf(i) >= 3000 =>
      /\ switchedAt(i)
      /\ i = Len(speechHistory) => speakerConsistencyCounter = 0

\* an utterance exactly 3000 ms after one that switched: the counter was 0,
\* so a shorter pause would have been vetoed
C35_Witness ==
  /\ Len(speechHistory) = 3
  /\ switchedAt(2)
  /\ pauseOf(3) = 3000
  /\ switchedAt(3)
  /\ speakerConsistencyCounter = 0

====
